---------------------------- MODULE Spec2Model ----------------------------
(***************************************************************************)
(* Entity resolution (master data management) of johanesalxd/mdm-gcp.      *)
(*                                                                         *)
(* Streaming path: StreamingMDMProcessor.process_record over the Spanner   *)
(* table golden_entities (src/streaming_mdm_gcp/streaming_processor.py).   *)
(* Batch path: the golden-record clustering SQL and the decision CASE of   *)
(* src/batch_mdm_gcp/bigquery_utils.py.                                    *)
(*                                                                         *)
(* Text values are sequences of one-character strings.  NULL (SQL NULL,    *)
(* Python None, a missing dict key) is the one-element sequence None.      *)
(* Scores are integers in units of 1/ScoreOne, so that every quotient the  *)
(* code forms for strings of up to ten characters is exact.                *)
(***************************************************************************)
EXTENDS Integers, Sequences, FiniteSets, Bags, TLC

VARIABLES
    golden_entities,   \* rows of the Spanner table golden_entities
    proc,              \* per worker: the locals of its process_record call
    results,           \* the results process_record has returned, in order
    calls,             \* number of process_record calls started
    uuid_count,        \* number of uuid4 values drawn so far
    combined_matches,  \* batch: rows of the <table>_combined_matches table
    golden_records,    \* batch: rows of the golden_records table
    batch_pc,          \* batch: "scored" before, "clustered" after the SQL ran
    score_in,          \* decision check: a combined score
    decisions,         \* decision check: the two decisions taken for score_in
    failures,          \* per returned result: the steps of that call that failed
    fn_in,             \* function check: the arguments of one call
    fn_out             \* function check: what the call returned

vars == <<golden_entities, proc, results, calls, uuid_count,
          combined_matches, golden_records, batch_pc, score_in, decisions,
          failures, fn_in, fn_out>>

stream_vars == <<golden_entities, proc, results, calls, uuid_count, failures>>
batch_vars == <<combined_matches, golden_records, batch_pc>>
decision_vars == <<score_in, decisions>>
fn_vars == <<fn_in, fn_out>>

-----------------------------------------------------------------------------
(* Bounds of the model *)

\* process_record calls in a sequential run
MaxSeqCalls == 4

\* process_record calls in a run whose store operations may fail
MaxFaultCalls == 2

\* store operations that fail in such a run
MaxFailures == 1
\* process_record calls in a run of two concurrent workers
MaxConcCalls == 3
\* records of the batch table, with record ids 1..NumBatchRecords
NumBatchRecords == 4

-----------------------------------------------------------------------------
(* Values *)

None == <<"NULL">>

\* Python truthiness of an optional string: neither None nor ''
Truthy(s) == s # None /\ s # <<>>

\* the score 1.0
ScoreOne == 1260000

\* n/d as a score; d divides ScoreOne for every d the model meets
Ratio(n, d) == n * (ScoreOne \div d)

Max2(a, b) == IF a >= b THEN a ELSE b
Min2(a, b) == IF a <= b THEN a ELSE b

SetMax(S) == CHOOSE x \in S : \A y \in S : y <= x

Range(s) == {s[i] : i \in 1..Len(s)}

-----------------------------------------------------------------------------
(* Characters and the string methods standardize_record uses *)

LowerChars == <<"a","b","c","d","e","f","g","h","i","j","k","l","m",
                "n","o","p","q","r","s","t","u","v","w","x","y","z">>
UpperChars == <<"A","B","C","D","E","F","G","H","I","J","K","L","M",
                "N","O","P","Q","R","S","T","U","V","W","X","Y","Z">>
DigitChars == {"0","1","2","3","4","5","6","7","8","9"}
SpaceChars == {" ", "\t", "\n"}

IsLetter(c) == c \in Range(LowerChars) \/ c \in Range(UpperChars)
IsWordChar(c) == IsLetter(c) \/ c \in DigitChars \/ c = "_"

UpperChar(c) ==
    IF c \in Range(LowerChars)
    THEN UpperChars[CHOOSE i \in 1..26 : LowerChars[i] = c]
    ELSE c

LowerChar(c) ==
    IF c \in Range(UpperChars)
    THEN LowerChars[CHOOSE i \in 1..26 : UpperChars[i] = c]
    ELSE c

\* str.upper()
Upper(s) == [i \in 1..Len(s) |-> UpperChar(s[i])]
\* str.lower()
Lower(s) == [i \in 1..Len(s) |-> LowerChar(s[i])]

\* str.strip(): drop leading and trailing whitespace
Strip(s) ==
    LET keep == {i \in 1..Len(s) : s[i] \notin SpaceChars}
    IN IF keep = {} THEN <<>>
       ELSE SubSeq(s, CHOOSE i \in keep : \A j \in keep : i <= j,
                      CHOOSE i \in keep : \A j \in keep : j <= i)

\* re.sub(r'[^a-zA-Z\s]', '', s)
KeepLettersAndSpaces(s) == SelectSeq(s, LAMBDA c : IsLetter(c) \/ c \in SpaceChars)
\* re.sub(r'[^0-9]', '', s)
KeepDigits(s) == SelectSeq(s, LAMBDA c : c \in DigitChars)

\* does the whole word w stand at position i of s, with \b on both sides
WordAt(s, w, i) ==
    /\ i + Len(w) - 1 <= Len(s)
    /\ SubSeq(s, i, i + Len(w) - 1) = w
    /\ (i = 1 \/ ~IsWordChar(s[i - 1]))
    /\ (i + Len(w) - 1 = Len(s) \/ ~IsWordChar(s[i + Len(w)]))

RECURSIVE ReplaceFrom(_, _, _, _)
ReplaceFrom(s, w, r, i) ==
    IF i > Len(s) THEN <<>>
    ELSE IF WordAt(s, w, i) THEN r \o ReplaceFrom(s, w, r, i + Len(w))
    ELSE <<s[i]>> \o ReplaceFrom(s, w, r, i + 1)

\* re.sub(r'\bW\b', R, s)
ReplaceWord(s, w, r) == ReplaceFrom(s, w, r, 1)

STREET == <<"S","T","R","E","E","T">>
AVENUE == <<"A","V","E","N","U","E">>
BOULEVARD == <<"B","O","U","L","E","V","A","R","D">>
ROAD == <<"R","O","A","D">>
DRIVE == <<"D","R","I","V","E">>

\* the five substitutions of standardize_record, in its order
Abbreviate(a) ==
    ReplaceWord(ReplaceWord(ReplaceWord(ReplaceWord(ReplaceWord(a,
        STREET, <<"S","T">>),
        AVENUE, <<"A","V","E">>),
        BOULEVARD, <<"B","L","V","D">>),
        ROAD, <<"R","D">>),
        DRIVE, <<"D","R">>)

\* generate_standardization_sql, address_clean: the five REGEXP_REPLACE on the
\* raw address, then UPPER, then TRIM; NULL for a NULL address
batch_address_clean(address) ==
    IF address = None THEN None ELSE Strip(Upper(Abbreviate(address)))

\* standardize_record setting a *_clean key for an empty raw field too
standardize_record_unguarded(record) ==
    [record_id       |-> record.record_id,
     source_system   |-> record.source_system,
     company         |-> record.company,
     full_name_clean |-> IF record.full_name # None
                         THEN Upper(Strip(KeepLettersAndSpaces(record.full_name)))
                         ELSE None,
     email_clean     |-> IF record.email # None
                         THEN Strip(Lower(record.email)) ELSE None,
     phone_clean     |-> IF record.phone # None
                         THEN KeepDigits(record.phone) ELSE None,
     address_clean   |-> IF record.address # None
                         THEN Abbreviate(Strip(Upper(record.address))) ELSE None,
     city_clean      |-> IF record.city # None
                         THEN Strip(Upper(record.city)) ELSE None,
     state_clean     |-> IF record.state # None
                         THEN Strip(Upper(record.state)) ELSE None]

\* standardize_record: a *_clean key is set only when the raw field is truthy
standardize_record(record) ==
    [record_id       |-> record.record_id,
     source_system   |-> record.source_system,
     company         |-> record.company,
     full_name_clean |-> IF Truthy(record.full_name)
                         THEN Upper(Strip(KeepLettersAndSpaces(record.full_name)))
                         ELSE None,
     email_clean     |-> IF Truthy(record.email)
                         THEN Strip(Lower(record.email)) ELSE None,
     phone_clean     |-> IF Truthy(record.phone)
                         THEN KeepDigits(record.phone) ELSE None,
     address_clean   |-> IF Truthy(record.address)
                         THEN Abbreviate(Strip(Upper(record.address))) ELSE None,
     city_clean      |-> IF Truthy(record.city)
                         THEN Strip(Upper(record.city)) ELSE None,
     state_clean     |-> IF Truthy(record.state)
                         THEN Strip(Upper(record.state)) ELSE None]

-----------------------------------------------------------------------------
(* calculate_string_similarity: Levenshtein distance by the full matrix *)

\* one row of the matrix from the row above it; acc holds columns 0..Len(acc)-1
\* (the cells filled so far are bound by a quantifier: computed once, then used)
RECURSIVE FillRow(_, _, _, _)
FillRow(prev, c, str2, acc) ==
    IF Len(acc) = Len(str2) + 1 THEN acc
    ELSE LET j == Len(acc)
             cell == IF c = str2[j] THEN prev[j]
                     ELSE Min2(Min2(prev[j + 1] + 1, acc[j] + 1), prev[j] + 1)
         IN CHOOSE row \in {FillRow(prev, c, str2, filled) :
                                filled \in {Append(acc, cell)}} : TRUE

RECURSIVE FillMatrix(_, _, _, _)
FillMatrix(str1, str2, i, prev) ==
    IF i > Len(str1) THEN prev
    ELSE CHOOSE last \in {FillMatrix(str1, str2, i + 1, row) :
                              row \in {FillRow(prev, str1[i], str2, <<i>>)}} : TRUE

edit_distance(str1, str2) ==
    FillMatrix(str1, str2, 1, [j \in 1..(Len(str2) + 1) |-> j - 1])[Len(str2) + 1]

\* calculate_string_similarity dividing by the length of its first argument
similarity_by_first_length(str1, str2) ==
    IF ~Truthy(str1) \/ ~Truthy(str2) THEN 0
    ELSE Max2(0, ScoreOne - Ratio(edit_distance(str1, str2), Len(str1)))

calculate_string_similarity(str1, str2) ==
    IF ~Truthy(str1) \/ ~Truthy(str2) THEN 0
    ELSE LET max_len == Max2(Len(str1), Len(str2))
         IN Max2(0, ScoreOne - Ratio(edit_distance(str1, str2), max_len))

\* what BigQuery answers to a division by zero
DivisionByZero == "division by zero"

\* generate_fuzzy_matching_sql, name_edit_distance_score:
\* 1.0 - EDIT_DISTANCE(a, b) / GREATEST(LENGTH(a), LENGTH(b))
name_edit_distance_score(a, b) ==
    IF a # None /\ b # None
    THEN IF Max2(Len(a), Len(b)) = 0 THEN DivisionByZero
         ELSE ScoreOne - Ratio(edit_distance(a, b), Max2(Len(a), Len(b)))
    ELSE 0

\* SQL SPLIT(s, ' '): the pieces between the spaces
RECURSIVE SplitFrom(_, _, _)
SplitFrom(s, i, token) ==
    IF i > Len(s) THEN <<token>>
    ELSE IF s[i] = " " THEN <<token>> \o SplitFrom(s, i + 1, <<>>)
    ELSE SplitFrom(s, i + 1, Append(token, s[i]))

Split(s) == SplitFrom(s, 1, <<>>)

\* the Soundex digit of a consonant; 0 for a vowel, 7 for H and W
SoundexCode(c) ==
    CASE c \in {"B", "F", "P", "V"} -> 1
      [] c \in {"C", "G", "J", "K", "Q", "S", "X", "Z"} -> 2
      [] c \in {"D", "T"} -> 3
      [] c = "L" -> 4
      [] c \in {"M", "N"} -> 5
      [] c = "R" -> 6
      [] c \in {"H", "W"} -> 7
      [] OTHER -> 0

\* the digits after the first letter: a letter coded like the one before it
\* adds nothing, a vowel between two letters separates them, H and W do not
RECURSIVE SoundexDigits(_, _, _, _)
SoundexDigits(letters, i, previous, digits) ==
    IF Len(digits) = 3 THEN digits
    ELSE IF i > Len(letters) THEN SoundexDigits(letters, i, previous, Append(digits, "0"))
    ELSE LET code == SoundexCode(letters[i])
         IN IF code = 7 THEN SoundexDigits(letters, i + 1, previous, digits)
            ELSE IF code = 0 \/ code = previous
            THEN SoundexDigits(letters, i + 1, code, digits)
            ELSE SoundexDigits(letters, i + 1, code, Append(digits, ToString(code)))

\* SQL SOUNDEX(s): characters that are no letters are ignored
Soundex(s) ==
    IF s = None THEN None
    ELSE LET letters == Upper(SelectSeq(s, IsLetter))
         IN IF letters = <<>> THEN <<>>
            ELSE <<letters[1]>> \o SoundexDigits(letters, 2, SoundexCode(letters[1]), <<>>)

\* generate_fuzzy_matching_sql, name_soundex_score
name_soundex_score(a, b) ==
    IF a # None /\ b # None /\ Soundex(a) = Soundex(b) THEN Ratio(8, 10) ELSE 0

\* generate_fuzzy_matching_sql, address_edit_distance_score
address_edit_distance_score(a, b) ==
    IF a # None /\ b # None
    THEN IF Max2(Len(a), Len(b)) = 0 THEN DivisionByZero
         ELSE ScoreOne - Ratio(edit_distance(a, b), Max2(Len(a), Len(b)))
    ELSE 0

\* generate_fuzzy_matching_sql, name_token_score: the tokens of a that are
\* among the tokens of b, over the greater number of tokens
name_token_score(a, b) ==
    IF a # None /\ b # None
    THEN LET tokens_a == Split(a)
             tokens_b == Split(b)
         IN Ratio(Cardinality({i \in 1..Len(tokens_a) : tokens_a[i] \in Range(tokens_b)}),
                  Max2(Len(tokens_a), Len(tokens_b)))
    ELSE 0

\* the row of the CTE fuzzy_matches for a pair of records, with the columns
\* the final SELECT adds
fuzzy_matches_row(a, b) ==
    LET name_edit == name_edit_distance_score(a.full_name_clean, b.full_name_clean)
        name_soundex == name_soundex_score(a.full_name_clean, b.full_name_clean)
        name_token == name_token_score(a.full_name_clean, b.full_name_clean)
        address_edit == address_edit_distance_score(a.address_clean, b.address_clean)
        name_fuzzy == Max2(Max2(name_edit, name_soundex), name_token)
    IN [name_edit_distance_score    |-> name_edit,
        name_soundex_score          |-> name_soundex,
        name_token_score            |-> name_token,
        address_edit_distance_score |-> address_edit,
        name_fuzzy_score            |-> name_fuzzy,
        address_fuzzy_score         |-> address_edit,
        fuzzy_overall_score         |-> (name_fuzzy + address_edit) \div 2]

batch_fuzzy_threshold == Ratio(5, 10)

\* the WHERE of generate_fuzzy_matching_sql written on the overall score
fuzzy_matches_above_overall(a, b) ==
    {row \in {fuzzy_matches_row(a, b)} : row.fuzzy_overall_score > batch_fuzzy_threshold}

\* the rows of the fuzzy matches table for a pair: WHERE GREATEST(...) > 0.5
fuzzy_matches(a, b) ==
    {row \in {fuzzy_matches_row(a, b)} :
        Max2(Max2(row.name_edit_distance_score, row.name_soundex_score),
             Max2(row.name_token_score, row.address_edit_distance_score))
            > batch_fuzzy_threshold}

-----------------------------------------------------------------------------
(* The four candidate strategies, each query a snapshot read of the table *)

\* SQL STARTS_WITH(value, prefix); NULL when value is NULL, so no row
StartsWith(value, prefix) ==
    /\ value # None
    /\ Len(prefix) <= Len(value)
    /\ SubSeq(value, 1, Len(prefix)) = prefix

Match(entity_id, score, match_type) ==
    [entity_id |-> entity_id, score |-> score, match_type |-> match_type]

\* find_exact_matches, first query: master_email = @email
exact_email_query(table, record) ==
    IF Truthy(record.email_clean)
    THEN {Match(g.entity_id, ScoreOne, "email") :
              g \in {h \in table : h.master_email = record.email_clean}}
    ELSE {}

\* find_exact_matches, second query: master_phone = @phone
exact_phone_query(table, record) ==
    IF Truthy(record.phone_clean)
    THEN {Match(g.entity_id, ScoreOne, "phone") :
              g \in {h \in table : h.master_phone = record.phone_clean}}
    ELSE {}

\* the score find_fuzzy_matches gives one row of its query
\* fuzzy_score as the mean of the name score and the address score
fuzzy_score_mean(record, g) ==
    LET master_name == IF g.master_name = None THEN <<>> ELSE g.master_name
        master_address == IF g.master_address = None THEN <<>> ELSE g.master_address
        name_score == calculate_string_similarity(record.full_name_clean, master_name)
        address_score == IF Truthy(record.address_clean) /\ Truthy(master_address)
                         THEN calculate_string_similarity(record.address_clean,
                                                          master_address)
                         ELSE 0
    IN (name_score + address_score) \div 2

fuzzy_score(record, g) ==
    LET master_name == IF g.master_name = None THEN <<>> ELSE g.master_name
        master_address == IF g.master_address = None THEN <<>> ELSE g.master_address
        name_score == calculate_string_similarity(record.full_name_clean, master_name)
        address_score == IF Truthy(record.address_clean) /\ Truthy(master_address)
                         THEN calculate_string_similarity(record.address_clean,
                                                          master_address)
                         ELSE 0
    IN Max2(name_score, address_score)

fuzzy_match_threshold == Ratio(6, 10)

find_fuzzy_matches(table, record) ==
    IF ~Truthy(record.full_name_clean) THEN {}
    ELSE LET name == record.full_name_clean
             name_prefix == IF Len(name) >= 3 THEN SubSeq(name, 1, 3) ELSE name
             rows == {g \in table : StartsWith(g.master_name, name_prefix)}
         IN {Match(g.entity_id, fuzzy_score(record, g), "fuzzy") :
                 g \in {h \in rows : fuzzy_score(record, h) > fuzzy_match_threshold}}

\* find_vector_matches finding every entity fully similar, as a search with
\* an embedding could
find_vector_matches_found(table, record, embedding) ==
    {Match(g.entity_id, ScoreOne, "vector") : g \in table}

\* find_vector_matches: no embedding, no candidates; with an embedding the
\* search raises (the helper has no query_similar_embeddings) and is caught
find_vector_matches(table, record, embedding) == {}

same_company_score == Ratio(3, 10)
same_location_score == Ratio(2, 10)

\* apply_business_rules, first query: master_company = @company
business_company_query(table, record) ==
    IF Truthy(record.company)
    THEN {Match(g.entity_id, same_company_score, "company") :
              g \in {h \in table : h.master_company = record.company}}
    ELSE {}

\* apply_business_rules, second query: master_city = @city AND master_state = @state
business_location_query(table, record) ==
    IF Truthy(record.city_clean) /\ Truthy(record.state_clean)
    THEN {Match(g.entity_id, same_location_score, "location") :
              g \in {h \in table : /\ h.master_city = record.city_clean
                                    /\ h.master_state = record.state_clean}}
    ELSE {}

-----------------------------------------------------------------------------
(* combine_scores and make_decision *)

\* the weights of __init__, in hundredths
WeightExact == 33
WeightFuzzy == 28
WeightVector == 22
WeightBusiness == 17

auto_merge_threshold == Ratio(8, 10)
human_review_threshold == Ratio(6, 10)

\* best score a strategy gave an entity, 0.0 when it gave none
BestScore(matches, entity_id) ==
    SetMax({0} \cup {m.score : m \in {x \in matches : x.entity_id = entity_id}})

\* the strategy scores with the business signals of an entity added up
StrategyScoresAdditive(exact, fuzzy, vector, business, entity_id) ==
    [exact    |-> BestScore(exact, entity_id),
     fuzzy    |-> BestScore(fuzzy, entity_id),
     vector   |-> BestScore(vector, entity_id),
     business |-> BestScore({m \in business : m.match_type = "company"}, entity_id)
                  + BestScore({m \in business : m.match_type = "location"}, entity_id)]

StrategyScores(exact, fuzzy, vector, business, entity_id) ==
    [exact    |-> BestScore(exact, entity_id),
     fuzzy    |-> BestScore(fuzzy, entity_id),
     vector   |-> BestScore(vector, entity_id),
     business |-> BestScore(business, entity_id)]

WeightedSum(scores) ==
    WeightExact * (scores.exact \div 100) + WeightFuzzy * (scores.fuzzy \div 100)
    + WeightVector * (scores.vector \div 100)
    + WeightBusiness * (scores.business \div 100)

AllEntities(exact, fuzzy, vector, business) ==
    {m.entity_id : m \in exact \cup fuzzy \cup vector \cup business}

NoScores == [exact |-> 0, fuzzy |-> 0, vector |-> 0, business |-> 0]

\* combine_scores returning any candidate instead of a best one
combine_scores_any(exact, fuzzy, vector, business) ==
    LET all_entities == AllEntities(exact, fuzzy, vector, business)
        score(e) == WeightedSum(StrategyScores(exact, fuzzy, vector, business, e))
    IN IF all_entities = {}
       THEN {[best_match |-> None, combined_score |-> 0, strategy_scores |-> NoScores]}
       ELSE {[best_match |-> e, combined_score |-> score(e),
              strategy_scores |-> StrategyScores(exact, fuzzy, vector, business, e)] :
                 e \in all_entities}

\* the results combine_scores can return: with several entities at the top
\* score, max() returns whichever the set iteration yields first
combine_scores(exact, fuzzy, vector, business) ==
    LET all_entities == AllEntities(exact, fuzzy, vector, business)
        score(e) == WeightedSum(StrategyScores(exact, fuzzy, vector, business, e))
    IN IF all_entities = {}
       THEN {[best_match |-> None, combined_score |-> 0, strategy_scores |-> NoScores]}
       ELSE {[best_match |-> e, combined_score |-> score(e),
              strategy_scores |-> StrategyScores(exact, fuzzy, vector, business, e)] :
                 e \in {x \in all_entities : \A y \in all_entities : score(y) <= score(x)}}

\* make_decision with the auto-merge test written > instead of >=
make_decision_strict(combined_score) ==
    IF combined_score > auto_merge_threshold
    THEN [action |-> "AUTO_MERGE", confidence |-> "HIGH", decision |-> "auto_merge"]
    ELSE IF combined_score >= human_review_threshold
    THEN [action |-> "HUMAN_REVIEW", confidence |-> "MEDIUM", decision |-> "human_review"]
    ELSE [action |-> "CREATE_NEW", confidence |-> "LOW", decision |-> "no_match"]

make_decision(combined_score) ==
    IF combined_score >= auto_merge_threshold
    THEN [action |-> "AUTO_MERGE", confidence |-> "HIGH", decision |-> "auto_merge"]
    ELSE IF combined_score >= human_review_threshold
    THEN [action |-> "HUMAN_REVIEW", confidence |-> "MEDIUM", decision |-> "human_review"]
    ELSE [action |-> "CREATE_NEW", confidence |-> "LOW", decision |-> "no_match"]

\* the CASE of generate_combined_scoring_sql
batch_match_decision(combined_score) ==
    IF combined_score >= Ratio(8, 10) THEN "auto_merge"
    ELSE IF combined_score >= Ratio(6, 10) THEN "human_review"
    ELSE "no_match"

-----------------------------------------------------------------------------
(* Entity ids *)

\* hashlib.sha256(s).hexdigest()[:36]: 144 bits of the digest, taken as
\* injective, so the id is the tagged hash input
Sha256Hex36(hash_input) == <<"sha256:">> \o hash_input

\* str(uuid.uuid4()): the n-th value drawn differs from all drawn before and
\* from every hash
Uuid4(n) == <<"uuid4:", ToString(n)>>

\* generate_deterministic_entity_id with the phone tried before the email
generate_id_phone_first(record, matched_entity_id, n) ==
    IF Truthy(matched_entity_id) THEN matched_entity_id
    ELSE IF Truthy(record.phone_clean)
    THEN Sha256Hex36(<<"phone:">> \o record.phone_clean)
    ELSE IF Truthy(record.email_clean)
    THEN Sha256Hex36(<<"email:">> \o record.email_clean)
    ELSE Uuid4(n + 1)

\* generate_deterministic_entity_id hashing the missing phone instead of
\* drawing a uuid
generate_id_without_uuid(record, matched_entity_id, n) ==
    IF Truthy(matched_entity_id) THEN matched_entity_id
    ELSE IF Truthy(record.email_clean)
    THEN Sha256Hex36(<<"email:">> \o record.email_clean)
    ELSE Sha256Hex36(<<"phone:">> \o (IF Truthy(record.phone_clean)
                                      THEN record.phone_clean ELSE <<>>))

\* generate_deterministic_entity_id trying the phone before the email
generate_deterministic_entity_id_phone_first(record, matched_entity_id, n) ==
    IF Truthy(matched_entity_id) THEN matched_entity_id
    ELSE IF Truthy(record.phone_clean)
    THEN Sha256Hex36(<<"phone:">> \o record.phone_clean)
    ELSE IF Truthy(record.email_clean)
    THEN Sha256Hex36(<<"email:">> \o record.email_clean)
    ELSE Uuid4(n + 1)

generate_deterministic_entity_id(record, matched_entity_id, n) ==
    IF Truthy(matched_entity_id) THEN matched_entity_id
    ELSE IF Truthy(record.email_clean)
    THEN Sha256Hex36(<<"email:">> \o record.email_clean)
    ELSE IF Truthy(record.phone_clean)
    THEN Sha256Hex36(<<"phone:">> \o record.phone_clean)
    ELSE Uuid4(n + 1)

\* record.get('record_id', entity_id)
SourceRecordId(record, entity_id) ==
    IF record.record_id = None THEN entity_id ELSE record.record_id

-----------------------------------------------------------------------------
(* The read-modify-write transactions on golden_entities.  Spanner runs the *)
(* function given to run_in_transaction serializably, so each is one step;  *)
(* an exception inside it leaves the table as it was.                       *)

\* SQL COALESCE(a, b)
Coalesce(a, b) == IF a # None THEN a ELSE b

\* Python "a or b" on optional strings
PyOr(a, b) == IF Truthy(a) THEN a ELSE b

\* the new source appended to the array without set(): an array is modelled
\* as the bag of its elements
new_sources_appended(current_sources, record) ==
    current_sources (+) SetToBag({record.source_system})

\* list(set(current_sources + [source_system]))
new_sources(current_sources, record) ==
    SetToBag(BagToSet(current_sources (+) SetToBag({record.source_system})))

RowsWithId(table, entity_id) == {g \in table : g.entity_id = entity_id}

\* the UPDATE of upsert_record with the arguments of COALESCE swapped
MergeIntoExistingFirstWins(current_row, entity_id, record) ==
    [current_row EXCEPT
        !.source_record_ids = current_row.source_record_ids
                                  \o <<SourceRecordId(record, entity_id)>>,
        !.source_systems = new_sources(current_row.source_systems, record),
        !.source_record_count = current_row.source_record_count + 1,
        !.master_name = Coalesce(current_row.master_name, record.full_name_clean),
        !.master_email = Coalesce(current_row.master_email, record.email_clean),
        !.master_phone = Coalesce(current_row.master_phone, record.phone_clean),
        !.master_address = Coalesce(current_row.master_address, record.address_clean),
        !.master_city = Coalesce(current_row.master_city, record.city_clean),
        !.master_state = Coalesce(current_row.master_state, record.state_clean),
        !.master_company = Coalesce(current_row.master_company, record.company),
        !.processing_path = "stream_updated"]

\* create_new_golden_record.upsert_record, the branch "if existing_rows"
MergeIntoExisting(current_row, entity_id, record) ==
    [current_row EXCEPT
        !.source_record_ids = current_row.source_record_ids
                                  \o <<SourceRecordId(record, entity_id)>>,
        !.source_systems = new_sources(current_row.source_systems, record),
        !.source_record_count = current_row.source_record_count + 1,
        !.master_name = Coalesce(record.full_name_clean, current_row.master_name),
        !.master_email = Coalesce(record.email_clean, current_row.master_email),
        !.master_phone = Coalesce(record.phone_clean, current_row.master_phone),
        !.master_address = Coalesce(record.address_clean, current_row.master_address),
        !.master_city = Coalesce(record.city_clean, current_row.master_city),
        !.master_state = Coalesce(record.state_clean, current_row.master_state),
        !.master_company = Coalesce(record.company, current_row.master_company),
        !.processing_path = "stream_updated"]

\* the INSERT branch with source_record_count left at 0
NewGoldenEntityUncounted(entity_id, record) ==
    [entity_id           |-> entity_id,
     source_record_ids   |-> <<SourceRecordId(record, entity_id)>>,
     source_record_count |-> 0,
     source_systems      |-> SetToBag({record.source_system}),
     master_name         |-> record.full_name_clean,
     master_email        |-> record.email_clean,
     master_phone        |-> record.phone_clean,
     master_address      |-> record.address_clean,
     master_city         |-> record.city_clean,
     master_state        |-> record.state_clean,
     master_company      |-> record.company,
     processing_path     |-> "stream"]

\* create_new_golden_record.upsert_record, the INSERT branch
NewGoldenEntity(entity_id, record) ==
    [entity_id           |-> entity_id,
     source_record_ids   |-> <<SourceRecordId(record, entity_id)>>,
     source_record_count |-> 1,
     source_systems      |-> SetToBag({record.source_system}),
     master_name         |-> record.full_name_clean,
     master_email        |-> record.email_clean,
     master_phone        |-> record.phone_clean,
     master_address      |-> record.address_clean,
     master_city         |-> record.city_clean,
     master_state        |-> record.state_clean,
     master_company      |-> record.company,
     processing_path     |-> "stream"]

\* upsert_record without the existence check: the row is written blindly
upsert_record_blind(table, entity_id, record) ==
    [ok |-> TRUE,
     table |-> (table \ RowsWithId(table, entity_id))
                  \cup {NewGoldenEntity(entity_id, record)}]

\* create_new_golden_record.upsert_record: the table after the transaction
upsert_record(table, entity_id, record) ==
    LET existing_rows == RowsWithId(table, entity_id)
    IN IF existing_rows # {}
       THEN LET current_row == CHOOSE g \in existing_rows : TRUE
            IN [ok |-> TRUE,
                table |-> (table \ existing_rows)
                             \cup {MergeIntoExisting(current_row, entity_id, record)}]
       ELSE [ok |-> TRUE, table |-> table \cup {NewGoldenEntity(entity_id, record)}]

\* the survivorship assignments with the operands of "or" swapped
MergeIntoMatchedFirstWins(current_row, entity_id, record) ==
    [current_row EXCEPT
        !.master_name = PyOr(current_row.master_name, record.full_name_clean),
        !.master_email = PyOr(current_row.master_email, record.email_clean),
        !.master_phone = PyOr(current_row.master_phone, record.phone_clean),
        !.master_address = PyOr(current_row.master_address, record.address_clean),
        !.source_record_ids = current_row.source_record_ids
                                  \o <<SourceRecordId(record, entity_id)>>,
        !.source_systems = new_sources(current_row.source_systems, record),
        !.source_record_count = current_row.source_record_count + 1]

\* update_golden_record.update_record, the survivorship assignments
MergeIntoMatched(current_row, entity_id, record) ==
    [current_row EXCEPT
        !.master_name = PyOr(record.full_name_clean, current_row.master_name),
        !.master_email = PyOr(record.email_clean, current_row.master_email),
        !.master_phone = PyOr(record.phone_clean, current_row.master_phone),
        !.master_address = PyOr(record.address_clean, current_row.master_address),
        !.source_record_ids = current_row.source_record_ids
                                  \o <<SourceRecordId(record, entity_id)>>,
        !.source_systems = new_sources(current_row.source_systems, record),
        !.source_record_count = current_row.source_record_count + 1]

\* update_record writing the row from the record alone, without the read
update_record_blind(table, entity_id, record) ==
    [ok |-> TRUE,
     table |-> (table \ RowsWithId(table, entity_id))
                  \cup {NewGoldenEntity(entity_id, record)}]

\* update_golden_record.update_record: list(current_result)[0] raises when
\* the row is gone
update_record(table, entity_id, record) ==
    LET current_rows == RowsWithId(table, entity_id)
    IN IF current_rows = {}
       THEN [ok |-> FALSE, table |-> table]
       ELSE LET current_row == CHOOSE g \in current_rows : TRUE
            IN [ok |-> TRUE,
                table |-> (table \ current_rows)
                             \cup {MergeIntoMatched(current_row, entity_id, record)}]

-----------------------------------------------------------------------------
(* The raw records submitted to the streaming path *)

Str1(a) == <<a>>
Str2(a, b) == <<a, b>>
Str3(a, b, c) == <<a, b, c>>

RawRecord(id, name, email, phone, address, city, state, company) ==
    [record_id |-> id, source_system |-> <<"crm">>, full_name |-> name,
     email |-> email, phone |-> phone, address |-> address,
     city |-> city, state |-> state, company |-> company]

\* r1, r2: same name, phone and company, different email
\* r3: r1's name and email, another phone, a shorter address, another source
\* r4: r2's email in another case
\* r5: r2's email, another name and phone;  the last: no email, phone or name
Pool ==
    {RawRecord(Str1("r1"), Str3("A","n","n"), Str3("o","@","x"), Str3("1","-","2"),
               <<"1"," ","R","o","a","d">>, Str1("Y"), Str1("N"), Str1("C")),
     RawRecord(Str1("r2"), Str3("A","N","N"), Str3("a","@","x"), Str2("1","2"),
               None, None, None, Str1("C")),
     [RawRecord(Str1("r3"), Str3("A","n","n"), Str3("o","@","x"), Str2("3","4"),
                Str1("1"), None, None, None) EXCEPT !.source_system = <<"erp">>],
     RawRecord(Str1("r4"), Str2("B","o"), <<"A","@","X"," ">>, None,
               None, Str1("y"), Str1("n"), None),
     RawRecord(Str1("r5"), Str2("B","o"), Str3("a","@","x"), Str1("5"),
               None, None, None, None),
     RawRecord(None, None, None, None,
               None, Str1("Y"), Str1("N"), Str1("C"))}

-----------------------------------------------------------------------------
(* process_record as a state machine *)

Workers == {1, 2}

NoRecord == RawRecord(None, None, None, None, None, None, None, None)

Idle == [pc |-> "idle", record |-> NoRecord,
         standardized |-> standardize_record(NoRecord),
         exact_matches |-> {}, fuzzy_matches |-> {}, business_matches |-> {},
         failed |-> {}]

\* Step 1: standardize the record
Begin(w, record) ==
    /\ proc[w].pc = "idle"
    /\ proc' = [proc EXCEPT ![w] = [Idle EXCEPT !.pc = "exact_email",
                                                 !.record = record,
                                                 !.standardized = standardize_record(record)]]
    /\ calls' = calls + 1
    /\ UNCHANGED <<golden_entities, results, uuid_count, failures,
                 batch_vars, decision_vars, fn_vars>>

\* a sequential caller: one call after the other
BeginSeq(w) ==
    /\ \A v \in Workers : proc[v].pc = "idle"
    /\ w = 1
    /\ calls < MaxSeqCalls
    /\ \E record \in Pool : Begin(w, record)

\* a worker pool: calls of the two workers overlap
BeginConc(w) ==
    /\ calls < MaxConcCalls
    /\ \E record \in Pool : Begin(w, record)

\* Step 2, find_exact_matches: the email query
ExactEmail(w) ==
    /\ proc[w].pc = "exact_email"
    /\ proc' = [proc EXCEPT
                  ![w].exact_matches = exact_email_query(golden_entities,
                                                         proc[w].standardized),
                  ![w].pc = "exact_phone"]
    /\ UNCHANGED <<golden_entities, results, calls, uuid_count, failures,
                 batch_vars, decision_vars, fn_vars>>

\* Step 2, find_exact_matches: the phone query
ExactPhone(w) ==
    /\ proc[w].pc = "exact_phone"
    /\ proc' = [proc EXCEPT
                  ![w].exact_matches = proc[w].exact_matches
                      \cup exact_phone_query(golden_entities, proc[w].standardized),
                  ![w].pc = "fuzzy"]
    /\ UNCHANGED <<golden_entities, results, calls, uuid_count, failures,
                 batch_vars, decision_vars, fn_vars>>

\* Step 2, find_fuzzy_matches
Fuzzy(w) ==
    /\ proc[w].pc = "fuzzy"
    /\ proc' = [proc EXCEPT
                  ![w].fuzzy_matches = find_fuzzy_matches(golden_entities,
                                                          proc[w].standardized),
                  ![w].pc = "business_company"]
    /\ UNCHANGED <<golden_entities, results, calls, uuid_count, failures,
                 batch_vars, decision_vars, fn_vars>>

\* Step 2, apply_business_rules: the company query
BusinessCompany(w) ==
    /\ proc[w].pc = "business_company"
    /\ proc' = [proc EXCEPT
                  ![w].business_matches = business_company_query(golden_entities,
                                                                 proc[w].standardized),
                  ![w].pc = "business_location"]
    /\ UNCHANGED <<golden_entities, results, calls, uuid_count, failures,
                 batch_vars, decision_vars, fn_vars>>

\* Step 2, apply_business_rules: the location query
BusinessLocation(w) ==
    /\ proc[w].pc = "business_location"
    /\ proc' = [proc EXCEPT
                  ![w].business_matches = proc[w].business_matches
                      \cup business_location_query(golden_entities, proc[w].standardized),
                  ![w].pc = "commit"]
    /\ UNCHANGED <<golden_entities, results, calls, uuid_count, failures,
                 batch_vars, decision_vars, fn_vars>>

\* the result dictionary when an exception follows the commit
result_after_exception(record, standardized, entity_id, decision, match_result, n) ==
    [record_id |-> IF record.record_id = None THEN <<"unknown">> ELSE record.record_id,
     entity_id |-> None,
     action |-> "ERROR",
     confidence |-> "LOW",
     combined_score |-> 0,
     strategy_scores |-> match_result.strategy_scores,
     matched_entity |-> None,
     standardized_record |-> standardized]

\* the result dictionary process_record returns; record.get('record_id',
\* str(uuid.uuid4())) names a record that has no id by a fresh uuid
Result(record, standardized, entity_id, decision, match_result, n) ==
    [record_id |-> IF record.record_id = None THEN Uuid4(n + 1) ELSE record.record_id,
     entity_id |-> entity_id,
     action |-> decision.action,
     confidence |-> decision.confidence,
     combined_score |-> match_result.combined_score,
     strategy_scores |-> match_result.strategy_scores,
     matched_entity |-> match_result.best_match,
     standardized_record |-> standardized]

\* the result of the except branch
ErrorResult(record) ==
    [record_id |-> IF record.record_id = None THEN <<"unknown">> ELSE record.record_id,
     entity_id |-> None,
     action |-> "ERROR",
     confidence |-> "LOW",
     combined_score |-> 0,
     strategy_scores |-> NoScores,
     matched_entity |-> None,
     standardized_record |-> standardize_record(NoRecord)]

\* Step 5 creating a golden record where the decision is to merge
commit_merge_as_create(w, match_result, decision) ==
    LET standardized == proc[w].standardized
        entity_id == generate_deterministic_entity_id(standardized, None, uuid_count)
        drawn == IF entity_id = Uuid4(uuid_count + 1) THEN 1 ELSE 0
        tx == upsert_record(golden_entities, entity_id, standardized)
    IN /\ decision.action \in {"AUTO_MERGE", "HUMAN_REVIEW"}
       /\ Truthy(match_result.best_match)
       /\ golden_entities' = tx.table
       /\ results' = Append(results,
              Result(proc[w].record, standardized, entity_id,
                     decision, match_result, uuid_count + drawn))
       /\ uuid_count' = uuid_count + drawn
                           + (IF proc[w].record.record_id = None THEN 1 ELSE 0)

\* Steps 3 to 5 with update_golden_record: merge into the best match
CommitMerge(w, match_result, decision) ==
    LET standardized == proc[w].standardized
        tx == update_record(golden_entities, match_result.best_match, standardized)
    IN /\ decision.action \in {"AUTO_MERGE", "HUMAN_REVIEW"}
       /\ Truthy(match_result.best_match)
       /\ golden_entities' = tx.table
       /\ results' = Append(results,
              IF tx.ok
              THEN Result(proc[w].record, standardized, match_result.best_match,
                          decision, match_result, uuid_count)
              ELSE ErrorResult(proc[w].record))
       /\ uuid_count' = uuid_count + (IF tx.ok /\ proc[w].record.record_id = None
                                      THEN 1 ELSE 0)

\* Steps 3 to 5 with create_new_golden_record: upsert under the deterministic id
CommitCreate(w, match_result, decision) ==
    LET standardized == proc[w].standardized
        entity_id == generate_deterministic_entity_id(standardized, None, uuid_count)
        drawn == IF entity_id = Uuid4(uuid_count + 1) THEN 1 ELSE 0
        tx == upsert_record(golden_entities, entity_id, standardized)
    IN /\ ~(decision.action \in {"AUTO_MERGE", "HUMAN_REVIEW"}
            /\ Truthy(match_result.best_match))
       /\ golden_entities' = tx.table
       /\ results' = Append(results,
              IF tx.ok
              THEN Result(proc[w].record, standardized, entity_id,
                          decision, match_result, uuid_count + drawn)
              ELSE ErrorResult(proc[w].record))
       /\ uuid_count' = uuid_count + drawn
                           + (IF tx.ok /\ proc[w].record.record_id = None THEN 1 ELSE 0)

\* Steps 3 to 5: combine, decide, commit, return
Commit(w) ==
    /\ proc[w].pc = "commit"
    /\ \E match_result \in combine_scores(proc[w].exact_matches, proc[w].fuzzy_matches,
                                          find_vector_matches(golden_entities,
                                                              proc[w].standardized, <<>>),
                                          proc[w].business_matches) :
          LET decision == make_decision(match_result.combined_score)
          IN \/ CommitMerge(w, match_result, decision)
             \/ CommitCreate(w, match_result, decision)
    /\ proc' = [proc EXCEPT ![w] = Idle]
    /\ failures' = Append(failures, proc[w].failed)
    /\ UNCHANGED <<calls, batch_vars, decision_vars, fn_vars>>

\* the match_results row store_match_result inserts for a result (without
\* matched_at and processing_time_ms)
store_match_result(record, result, match_id) ==
    [match_id         |-> match_id,
     record1_id       |-> result.record_id,
     record2_id       |-> IF Truthy(result.matched_entity)
                          THEN result.matched_entity ELSE <<"none">>,
     source1          |-> record.source_system,
     source2          |-> IF Truthy(result.matched_entity)
                          THEN <<"golden_entity">> ELSE <<"none">>,
     exact_score      |-> result.strategy_scores.exact,
     fuzzy_score      |-> result.strategy_scores.fuzzy,
     vector_score     |-> result.strategy_scores.vector,
     business_score   |-> result.strategy_scores.business,
     combined_score   |-> result.combined_score,
     confidence_level |-> result.confidence,
     match_decision   |-> result.action]

\* execute_sql letting the exception of a failed query through
execute_sql_raises(w) ==
    /\ proc[w].pc \in {"exact_email", "exact_phone", "fuzzy",
                       "business_company", "business_location"}
    /\ results' = Append(results, ErrorResult(proc[w].record))
    /\ failures' = Append(failures, proc[w].failed \cup {proc[w].pc})
    /\ proc' = [proc EXCEPT ![w] = Idle]
    /\ UNCHANGED <<golden_entities, calls, uuid_count,
                 batch_vars, decision_vars, fn_vars>>

\* the store operations of one call, in the order process_record runs them
QuerySteps ==
    <<"exact_email", "exact_phone", "fuzzy", "business_company", "business_location">>

StepAfter(pc) ==
    IF pc = "business_location" THEN "commit"
    ELSE QuerySteps[(CHOOSE k \in 1..Len(QuerySteps) : QuerySteps[k] = pc) + 1]

\* the query of a step is only sent when the record has the fields it asks for
QueryIsSent(pc, record) ==
    CASE pc = "exact_email" -> Truthy(record.email_clean)
      [] pc = "exact_phone" -> Truthy(record.phone_clean)
      [] pc = "fuzzy" -> Truthy(record.full_name_clean)
      [] pc = "business_company" -> Truthy(record.company)
      [] pc = "business_location" -> Truthy(record.city_clean) /\ Truthy(record.state_clean)
      [] OTHER -> FALSE

\* the store operations that have failed in the run
RECURSIVE SumOfFailures(_)
SumOfFailures(log) ==
    IF log = <<>> THEN 0 ELSE Cardinality(Head(log)) + SumOfFailures(Tail(log))

FailuresSoFar(w) == SumOfFailures(failures) + Cardinality(proc[w].failed)

\* a process_record call in a run whose store operations may fail
BeginFault(w) ==
    /\ \A v \in Workers : proc[v].pc = "idle"
    /\ w = 1
    /\ calls < MaxFaultCalls
    /\ \E record \in Pool : Begin(w, record)

\* SpannerMDMHelper.execute_sql catches the exception of a failed query and
\* returns an empty DataFrame: the step adds no candidate
ExecuteSqlFails(w) ==
    /\ proc[w].pc \in Range(QuerySteps)
    /\ QueryIsSent(proc[w].pc, proc[w].standardized)
    /\ FailuresSoFar(w) < MaxFailures
    /\ proc' = [proc EXCEPT ![w].pc = StepAfter(proc[w].pc),
                            ![w].failed = proc[w].failed \cup {proc[w].pc}]
    /\ UNCHANGED <<golden_entities, results, calls, uuid_count, failures,
                 batch_vars, decision_vars, fn_vars>>

\* a failed transaction whose exception leaves process_record uncaught
commit_fails_uncaught(w) ==
    /\ proc[w].pc = "commit"
    /\ failures' = Append(failures, proc[w].failed \cup {"commit"})
    /\ proc' = [proc EXCEPT ![w] = Idle]
    /\ UNCHANGED <<golden_entities, results, calls, uuid_count,
                 batch_vars, decision_vars, fn_vars>>

\* run_in_transaction raises: the transaction wrote nothing and the except
\* branch of process_record returns the error result
CommitFails(w) ==
    /\ proc[w].pc = "commit"
    /\ FailuresSoFar(w) < MaxFailures
    /\ results' = Append(results, ErrorResult(proc[w].record))
    /\ failures' = Append(failures, proc[w].failed \cup {"commit"})
    /\ proc' = [proc EXCEPT ![w] = Idle]
    /\ UNCHANGED <<golden_entities, calls, uuid_count,
                 batch_vars, decision_vars, fn_vars>>

StreamInit ==
    /\ golden_entities = {}
    /\ proc = [w \in Workers |-> Idle]
    /\ results = <<>>
    /\ calls = 0
    /\ uuid_count = 0
    /\ failures = <<>>

-----------------------------------------------------------------------------
(* Batch: generate_combined_scoring_sql's decision and generate_golden_record_sql *)

BatchRecordIds == 1..NumBatchRecords

\* the pairs the matching SQL forms: a.record_id < b.record_id
BatchPairs == {p \in BatchRecordIds \X BatchRecordIds : p[1] < p[2]}

\* combined scores a pair can have: 0.5 (no_match), 0.6, 0.8
BatchScoreSamples == {Ratio(5, 10), Ratio(6, 10), Ratio(8, 10)}

\* the rows of <table>_combined_matches: WHERE combined_score > 0.3
combined_matches_rows(score_of) ==
    {[record1_id |-> p[1], record2_id |-> p[2], combined_score |-> score_of[p],
      match_decision |-> batch_match_decision(score_of[p])] :
         p \in {q \in BatchPairs : score_of[q] > Ratio(3, 10)}}

\* SQL NULL among record ids
NullId == 0

\* BigQuery LEAST: NULL if any argument is NULL
Least(a, b) == IF a = NullId \/ b = NullId THEN NullId ELSE Min2(a, b)

\* SQL MIN: NULLs are skipped, NULL when nothing is left
SqlMin(S) ==
    IF S \ {NullId} = {} THEN NullId
    ELSE CHOOSE x \in S \ {NullId} : \A y \in S \ {NullId} : x <= y

\* Step 1
match_pairs(cm) ==
    {r \in cm : /\ r.match_decision \in {"auto_merge", "human_review"}
                /\ r.combined_score >= Ratio(6, 10)}

\* Step 2
edges(cm) ==
    {<<r.record1_id, r.record2_id>> : r \in match_pairs(cm)}
    \cup {<<r.record2_id, r.record1_id>> : r \in match_pairs(cm)}

\* Step 3
initial_clusters(cm) ==
    LET e_all == edges(cm)
    IN {[record_id |-> e[1], cluster_id |-> e[1]] : e \in e_all}
       \cup {[record_id |-> r, cluster_id |-> r] :
                r \in {x \in BatchRecordIds :
                          x \notin {e[1] : e \in e_all} \cup {e[2] : e \in e_all}}}

\* the cluster_id columns a row is joined with by
\* LEFT JOIN edges e ON record_id = e.node1 LEFT JOIN clusters c2 ON e.node2 = c2.record_id
JoinedClusterIds(e_all, clusters, record_id) ==
    LET joined == {c2.cluster_id :
                      c2 \in {c \in clusters : <<record_id, c.record_id>> \in e_all}}
    IN IF joined = {} THEN {NullId} ELSE joined

\* Step 4
propagated_clusters(cm) ==
    LET e_all == edges(cm)
        ic == initial_clusters(cm)
    IN {[record_id |-> c1.record_id,
         cluster_id |-> SqlMin({Least(c1.cluster_id, c2_id) :
                                   c2_id \in JoinedClusterIds(e_all, ic, c1.record_id)})] :
            c1 \in ic}

\* final_clusters without the second propagation
final_clusters_one_hop(cm) == propagated_clusters(cm)

\* Step 5
final_clusters(cm) ==
    LET e_all == edges(cm)
        pcs == propagated_clusters(cm)
    IN {[record_id |-> pc1.record_id,
         cluster_id |-> SqlMin(JoinedClusterIds(e_all, pcs, pc1.record_id))] :
            pc1 \in pcs}
       \cup {pc \in pcs : pc.record_id \notin {e[1] : e \in e_all}}

\* the rows of the standardized table the clustering joins with: every
\* record has the same phone, records 2 and 3 the same email, and a greater
\* id was processed later
BatchEmail(record_id) ==
    CASE record_id = 1 -> Str3("b", "@", "x")
      [] record_id \in {2, 3} -> Str3("a", "@", "x")
      [] OTHER -> None

BatchPhone(record_id) == Str2("1", "2")

processed_at(record_id) == record_id

\* ORDER BY processed_at DESC over the records of a cluster
RECURSIVE MostRecentFirst(_)
MostRecentFirst(S) ==
    IF S = {} THEN <<>>
    ELSE LET latest == CHOOSE r \in S : \A q \in S : processed_at(q) <= processed_at(r)
         IN <<latest>> \o MostRecentFirst(S \ {latest})

\* ARRAY_AGG(x IGNORE NULLS ORDER BY processed_at DESC LIMIT 1)[OFFSET(0)] over
\* the values of a cluster, most recent first
most_recent_non_null(values) ==
    LET kept == SelectSeq(values, LAMBDA v : v # None)
    IN IF kept = <<>> THEN None ELSE kept[1]

\* Step 6: GROUP BY fc.cluster_id over final_clusters JOIN the record table
golden_records_raw(cm) ==
    LET fcs == final_clusters(cm)
        members(c) == {fc.record_id : fc \in {x \in fcs : /\ x.cluster_id = c
                                                          /\ x.record_id \in BatchRecordIds}}
        ordered(c) == MostRecentFirst(members(c))
    IN {[cluster_id |-> c,
         source_record_ids |-> members(c),
         master_email |-> most_recent_non_null(
                              [i \in 1..Len(ordered(c)) |-> BatchEmail(ordered(c)[i])]),
         master_phone |-> most_recent_non_null(
                              [i \in 1..Len(ordered(c)) |-> BatchPhone(ordered(c)[i])]),
         source_record_count |-> Cardinality(members(c))] :
            c \in {fc.cluster_id : fc \in fcs}}

\* Step 7: the CASE giving master_id
master_id(master_email, master_phone, cluster_id) ==
    IF master_email # None THEN Sha256Hex36(<<"email:">> \o master_email)
    ELSE IF master_phone # None THEN Sha256Hex36(<<"phone:">> \o master_phone)
    ELSE cluster_id

\* a cluster_id as the STRING the CASE falls back to
ClusterIdText(cluster_id) ==
    IF cluster_id = NullId THEN None ELSE <<ToString(cluster_id)>>

\* Step 7 and the final SELECT: the rows of the golden_records table
golden_records_with_ids(cm) ==
    {[master_id |-> master_id(raw.master_email, raw.master_phone,
                              ClusterIdText(raw.cluster_id)),
      source_record_ids |-> raw.source_record_ids,
      master_email |-> raw.master_email,
      master_phone |-> raw.master_phone,
      source_record_count |-> raw.source_record_count] :
         raw \in golden_records_raw(cm)}

\* master_id of the cluster holding one record only
singleton_master_id(record, cluster_id) ==
    master_id(most_recent_non_null(<<record.email_clean>>),
              most_recent_non_null(<<record.phone_clean>>),
              cluster_id)

\* generate_business_rules_sql: the CASE expressions of a pair of records
batch_same_company_score(a, b) ==
    IF a.company # None /\ b.company # None /\ a.company = b.company
    THEN Ratio(3, 10) ELSE 0

batch_same_location_score(a, b) ==
    IF /\ a.city_clean # None /\ b.city_clean # None
       /\ a.state_clean # None /\ b.state_clean # None
       /\ a.city_clean = b.city_clean /\ a.state_clean = b.state_clean
    THEN Ratio(2, 10) ELSE 0

\* the records of the model carry no date_of_birth and no annual_income:
\* "date_of_birth IS NOT NULL" and "annual_income > 0" are not true of NULL
age_compatibility_score(a, b) == 0
income_compatibility_score(a, b) == 0

\* business_score of the combined scores: the four columns added
batch_business_score(a, b) ==
    batch_same_company_score(a, b) + batch_same_location_score(a, b)
    + age_compatibility_score(a, b) + income_compatibility_score(a, b)

BatchInit ==
    /\ \E score_of \in [BatchPairs -> BatchScoreSamples] :
           combined_matches = combined_matches_rows(score_of)
    /\ golden_records = {}
    /\ batch_pc = "scored"

\* run the statement of generate_golden_record_sql
RunGoldenRecordSql ==
    /\ batch_pc = "scored"
    /\ golden_records' = golden_records_with_ids(combined_matches)
    /\ batch_pc' = "clustered"
    /\ UNCHANGED <<combined_matches, stream_vars, decision_vars, fn_vars>>

-----------------------------------------------------------------------------
(* The two decision rules side by side *)

\* combined scores in hundredths, and the scores next to each threshold
ScoreSamples ==
    {Ratio(k, 100) : k \in 0..100}
    \cup {Ratio(6, 10) - 1, Ratio(6, 10) + 1, Ratio(8, 10) - 1, Ratio(8, 10) + 1,
          Ratio(7999, 10000), Ratio(5999, 10000)}

DecisionInit ==
    /\ score_in \in ScoreSamples
    /\ decisions = <<>>

\* decide score_in by make_decision and by the batch CASE
Decide ==
    /\ decisions = <<>>
    /\ decisions' = <<make_decision(score_in).decision, batch_match_decision(score_in)>>
    /\ UNCHANGED <<score_in, stream_vars, batch_vars, fn_vars>>

-----------------------------------------------------------------------------
(* Single functions on sampled arguments *)

JON_SMITH == <<"J","O","N"," ","S","M","I","T","H">>
JOHN_SMITH == <<"J","O","H","N"," ","S","M","I","T","H">>

\* clean names, the empty string and NULL
NameSamples ==
    {JON_SMITH, JOHN_SMITH, <<"J","O","N">>, <<"J","O","H","N">>,
     <<"S","M","I","T","H">>, <<"J","O"," ","S","M","I","T","H">>, <<>>, None}

SimilarityInputs ==
    {[op |-> "similarity", str1 |-> a, str2 |-> b] : a, b \in NameSamples}

\* a clean identifier that is NULL, empty or filled
EmailSamples == {None, <<>>, Str3("a", "@", "x")}
PhoneSamples == {None, <<>>, Str1("5")}

\* the cluster_id of a singleton: NULL or the record's id
ClusterIdSamples == {None, Str2("r", "1")}

EntityIdInputs ==
    {[op |-> "entity_id", email_clean |-> e, phone_clean |-> p, cluster_id |-> c] :
        e \in EmailSamples, p \in PhoneSamples, c \in ClusterIdSamples}

\* clean names and addresses of a pair; NULL, never the empty string, which
\* makes the batch SQL divide by zero
FuzzyNameSamples == {JON_SMITH, JOHN_SMITH, <<"J","O","N">>, None}
FuzzyAddressSamples == {<<"1"," ","R","D">>, <<"1"," ","S","T">>, None}

FuzzySides ==
    {[full_name_clean |-> n, address_clean |-> a] :
        n \in FuzzyNameSamples, a \in FuzzyAddressSamples}

FuzzyInputs == {[op |-> "fuzzy", a |-> x, b |-> y] : x, y \in FuzzySides}

\* raw fields: mixed case, surrounding blanks, nothing that survives the
\* cleaning, NULL
RawNameSamples == {<<"A","n","n"," ">>, <<"1">>, None}
RawEmailSamples == {<<"A","@","X"," ">>, <<" ">>}
RawPhoneSamples == {<<"1","-","2">>, <<"x">>}
RawAddressSamples ==
    {<<"1"," ","R","O","A","D">>, <<"1"," ","R","o","a","d">>,
     <<" ","D","R","I","V","E"," ","S","T">>, <<"1"," ","R","D">>, <<" ">>, None}
RawCitySamples == {<<"y"," ">>, None}

StandardizeInputs ==
    {[op |-> "standardize",
      record |-> RawRecord(Str1("r"), n, e, p, a, c, <<"n">>, None)] :
        n \in RawNameSamples, e \in RawEmailSamples, p \in RawPhoneSamples,
        a \in RawAddressSamples, c \in RawCitySamples}

FnInputs == SimilarityInputs \cup EntityIdInputs \cup FuzzyInputs \cup StandardizeInputs

FnInit ==
    /\ fn_in \in FnInputs
    /\ fn_out = <<>>

\* the name score of a pair by the streaming function and by the batch SQL
Similarity ==
    /\ fn_in.op = "similarity"
    /\ fn_out = <<>>
    /\ fn_out' = <<calculate_string_similarity(fn_in.str1, fn_in.str2),
                   name_edit_distance_score(fn_in.str1, fn_in.str2)>>
    /\ UNCHANGED <<fn_in, stream_vars, batch_vars, decision_vars>>

\* the id of an unmatched record by the streaming function and by the batch
\* SQL for the record's singleton cluster
EntityId ==
    /\ fn_in.op = "entity_id"
    /\ fn_out = <<>>
    /\ fn_out' = <<generate_deterministic_entity_id(fn_in, None, uuid_count),
                   singleton_master_id(fn_in, fn_in.cluster_id)>>
    /\ UNCHANGED <<fn_in, stream_vars, batch_vars, decision_vars>>

\* the second record of a pair as the only golden entity of the table
EntityOfSide(side) ==
    [entity_id |-> <<"e">>, master_name |-> side.full_name_clean,
     master_address |-> side.address_clean]

\* the fuzzy score of a pair by streaming find_fuzzy_matches, the second
\* record being a golden entity, and by the batch fuzzy SQL
FuzzyPair ==
    /\ fn_in.op = "fuzzy"
    /\ fn_out = <<>>
    /\ fn_out' = <<find_fuzzy_matches({EntityOfSide(fn_in.b)}, fn_in.a),
                   fuzzy_matches(fn_in.a, fn_in.b)>>
    /\ UNCHANGED <<fn_in, stream_vars, batch_vars, decision_vars>>

\* the cleaned values of a record fed back as raw fields
CleanAsRaw(standardized) ==
    RawRecord(standardized.record_id, standardized.full_name_clean,
              standardized.email_clean, standardized.phone_clean,
              standardized.address_clean, standardized.city_clean,
              standardized.state_clean, standardized.company)

\* standardize_record on a raw record, then on its own output, and the
\* address_clean of the batch SQL for the same raw address
Standardize ==
    /\ fn_in.op = "standardize"
    /\ fn_out = <<>>
    /\ fn_out' = <<standardize_record(fn_in.record),
                   standardize_record(CleanAsRaw(standardize_record(fn_in.record))),
                   batch_address_clean(fn_in.record.address)>>
    /\ UNCHANGED <<fn_in, stream_vars, batch_vars, decision_vars>>

-----------------------------------------------------------------------------
(* Specifications *)

BatchIdle ==
    /\ combined_matches = {}
    /\ golden_records = {}
    /\ batch_pc = "idle"

DecisionIdle ==
    /\ score_in = 0
    /\ decisions = <<>>

FnIdle ==
    /\ fn_in = <<>>
    /\ fn_out = <<>>

\* two workers whose process_record calls interleave
Init == StreamInit /\ BatchIdle /\ DecisionIdle /\ FnIdle

Next ==
    \/ \E w \in Workers : BeginConc(w)
    \/ \E w \in Workers : ExactEmail(w)
    \/ \E w \in Workers : ExactPhone(w)
    \/ \E w \in Workers : Fuzzy(w)
    \/ \E w \in Workers : BusinessCompany(w)
    \/ \E w \in Workers : BusinessLocation(w)
    \/ \E w \in Workers : Commit(w)

Spec == Init /\ [][Next]_vars

\* one caller submitting records one after the other
NextSeq ==
    \/ \E w \in Workers : BeginSeq(w)
    \/ \E w \in Workers : ExactEmail(w)
    \/ \E w \in Workers : ExactPhone(w)
    \/ \E w \in Workers : Fuzzy(w)
    \/ \E w \in Workers : BusinessCompany(w)
    \/ \E w \in Workers : BusinessLocation(w)
    \/ \E w \in Workers : Commit(w)

SpecSeq == Init /\ [][NextSeq]_vars

\* one caller, and store operations that may fail
NextFault ==
    \/ \E w \in Workers : BeginFault(w)
    \/ \E w \in Workers : ExactEmail(w)
    \/ \E w \in Workers : ExactPhone(w)
    \/ \E w \in Workers : Fuzzy(w)
    \/ \E w \in Workers : BusinessCompany(w)
    \/ \E w \in Workers : BusinessLocation(w)
    \/ \E w \in Workers : Commit(w)
    \/ \E w \in Workers : ExecuteSqlFails(w)
    \/ \E w \in Workers : CommitFails(w)

SpecFault == Init /\ [][NextFault]_vars

\* a started call runs on to its return: each step is taken or fails
RunsOn(w) ==
    \/ ExactEmail(w) \/ ExactPhone(w) \/ Fuzzy(w)
    \/ BusinessCompany(w) \/ BusinessLocation(w)
    \/ Commit(w) \/ ExecuteSqlFails(w) \/ CommitFails(w)

SpecFaultFair == SpecFault /\ \A w \in Workers : WF_vars(RunsOn(w))

\* the batch clustering of every match table over the batch records
InitBatch == StreamInit /\ BatchInit /\ DecisionIdle /\ FnIdle

NextBatch == RunGoldenRecordSql

SpecBatch == InitBatch /\ [][NextBatch]_vars

\* the decision rules on every sampled score
InitDecision == StreamInit /\ BatchIdle /\ DecisionInit /\ FnIdle

NextDecision == Decide

SpecDecision == InitDecision /\ [][NextDecision]_vars

\* single functions on every sampled argument
InitFunctions == StreamInit /\ BatchIdle /\ DecisionIdle /\ FnInit

NextFunctions == Similarity \/ EntityId \/ FuzzyPair \/ Standardize

SpecFunctions == InitFunctions /\ [][NextFunctions]_vars

-----------------------------------------------------------------------------
(* Properties of the batch clustering *)

Clustered == batch_pc = "clustered"

MatchEdges == edges(combined_matches)

MatchedRecords == {e[1] : e \in MatchEdges}

UnmatchedRecords == BatchRecordIds \ MatchedRecords

GoldenRecordsOf(r) == {g \in golden_records : r \in g.source_record_ids}

SameGoldenRecord(a, b) == \E g \in golden_records : {a, b} \subseteq g.source_record_ids

\* the records reachable from those of S along edges of E
RECURSIVE ReachFrom(_, _)
ReachFrom(S, E) ==
    LET T == S \cup {e[2] : e \in {x \in E : x[1] \in S}}
    IN IF T = S THEN S ELSE ReachFrom(T, E)

\* a and b are matched, b and c are matched, and no other matched pair
\* touches a, b or c
IsTwoHopChain(a, b, c) ==
    /\ Cardinality({a, b, c}) = 3
    /\ {e \in MatchEdges : e[1] \in {a, b, c} \/ e[2] \in {a, b, c}}
           = {<<a, b>>, <<b, a>>, <<b, c>>, <<c, b>>}

C6_ComponentsAreGoldenRecords ==
    Clustered =>
        \A a, b \in MatchedRecords :
            SameGoldenRecord(a, b) <=> b \in ReachFrom({a}, MatchEdges)

\* C7: a record without a matched pair is in exactly one golden record, and
\* that golden record holds no other record
C7_UnmatchedAreSingletons ==
    Clustered =>
        \A r \in UnmatchedRecords :
            /\ Cardinality(GoldenRecordsOf(r)) = 1
            /\ \A g \in GoldenRecordsOf(r) : g.source_record_ids = {r}

-----------------------------------------------------------------------------
(* Properties of the decision rules *)

Decided == decisions # <<>>

DecisionRank(d) ==
    IF d = "no_match" THEN 0 ELSE IF d = "human_review" THEN 1 ELSE 2

\* C8: streaming and batch take the same decision; it is auto_merge from
\* 0.8 on, human_review from 0.6 up to but excluding 0.8, no_match below
\* 0.6, and it never falls when the score rises
C8_MonotoneThresholds ==
    Decided =>
        /\ decisions[1] = decisions[2]
        /\ decisions[1] \in {"auto_merge", "human_review", "no_match"}
        /\ (score_in >= Ratio(8, 10)) <=> (decisions[1] = "auto_merge")
        /\ (score_in >= Ratio(6, 10) /\ score_in < Ratio(8, 10))
               <=> (decisions[1] = "human_review")
        /\ (score_in < Ratio(6, 10)) <=> (decisions[1] = "no_match")
        /\ \A lower \in ScoreSamples :
               lower <= score_in =>
                   /\ DecisionRank(make_decision(lower).decision)
                          <= DecisionRank(decisions[1])
                   /\ DecisionRank(batch_match_decision(lower))
                          <= DecisionRank(decisions[2])

\* C8 witness: 0.7999 has been decided human_review, by both rules
C8_Witness ==
    /\ Decided
    /\ score_in = Ratio(7999, 10000)
    /\ decisions = <<"human_review", "human_review">>

-----------------------------------------------------------------------------
(* Properties of the streaming path *)

Occurrences(seq, x) == Cardinality({i \in 1..Len(seq) : seq[i] = x})

Owners(record_id) ==
    {g \in golden_entities : record_id \in Range(g.source_record_ids)}

AllSourceRecordIds ==
    UNION {Range(g.source_record_ids) : g \in golden_entities}

Finished == 1..Len(results)

Succeeded == {i \in Finished : results[i].action # "ERROR"}

\* the calls that went through create_new_golden_record
Created == {i \in Succeeded : results[i].action = "CREATE_NEW"}

CleanEmail(i) == results[i].standardized_record.email_clean
CleanPhone(i) == results[i].standardized_record.phone_clean

\* the source record id the call behind result i appended
AppendedId(i) ==
    SourceRecordId(results[i].standardized_record, results[i].entity_id)

AppendedIdOf(result) ==
    SourceRecordId(result.standardized_record, result.entity_id)

\* C1: no source record id is in the source_record_ids of two golden entities
C1_NoDoubleOwnership ==
    \A record_id \in AllSourceRecordIds : Cardinality(Owners(record_id)) <= 1

\* C2 as stated: two finished calls whose records have the same clean email
\* returned the same entity_id
C2_SameEmailSameEntity ==
    \A i, j \in Succeeded :
        (Truthy(CleanEmail(i)) /\ CleanEmail(i) = CleanEmail(j))
            => results[i].entity_id = results[j].entity_id

\* C2 amended: two calls whose records have the same clean email and which
\* both went through create_new_golden_record, one after the other or
\* overlapping, returned the same entity_id, the hash of "email:" + email
C2_SameEmailSameCreatedEntity ==
    \A i, j \in Created :
        (Truthy(CleanEmail(i)) /\ CleanEmail(i) = CleanEmail(j))
            => /\ results[i].entity_id = results[j].entity_id
               /\ results[i].entity_id = Sha256Hex36(<<"email:">> \o CleanEmail(i))

\* C2 witness: two different records with one clean email were both created
C2_Witness ==
    \E i, j \in Created :
        /\ Truthy(CleanEmail(i))
        /\ CleanEmail(i) = CleanEmail(j)
        /\ results[i].record_id # results[j].record_id
        /\ results[i].entity_id = results[j].entity_id

\* C3: however often a record is submitted, its id is in the
\* source_record_ids of an entity at most once
C3_ResubmissionAppendsOnce ==
    \A g \in golden_entities :
        \A record_id \in Range(g.source_record_ids) :
            Occurrences(g.source_record_ids, record_id) <= 1

\* C4: after create_new_golden_record calls under one deterministic id, in
\* any interleaving, the table holds exactly one entity with that id, its
\* source_record_ids holds the record id of every such call, and no call
\* ended in an error
C4_ConcurrentCreatesMerge ==
    /\ \A i \in Finished : results[i].action # "ERROR"
    /\ \A i \in Created :
           /\ Cardinality(RowsWithId(golden_entities, results[i].entity_id)) = 1
           /\ \A g \in RowsWithId(golden_entities, results[i].entity_id) :
                  AppendedId(i) \in Range(g.source_record_ids)

\* C4 witness: two calls that both saw no candidate created the same id, and
\* the entity holds both record ids
C4_Witness ==
    \E i, j \in Created :
        /\ results[i].record_id # results[j].record_id
        /\ results[i].entity_id = results[j].entity_id
        /\ results[i].matched_entity = None
        /\ results[j].matched_entity = None
        /\ \E g \in golden_entities :
               /\ g.entity_id = results[i].entity_id
               /\ {AppendedId(i), AppendedId(j)} \subseteq Range(g.source_record_ids)

\* the first two calls of a sequential run had records with the same clean
\* email and different phone numbers, and both succeeded
TwoPhonesScenario ==
    /\ Len(results) = 2
    /\ \A w \in Workers : proc[w].pc = "idle"
    /\ Succeeded = {1, 2}
    /\ Truthy(CleanEmail(1))
    /\ CleanEmail(1) = CleanEmail(2)
    /\ CleanPhone(1) # CleanPhone(2)

MasterPhoneOf(entity_id) ==
    (CHOOSE g \in golden_entities : g.entity_id = entity_id).master_phone

\* C9 as stated: both resolve to one entity, whose master_phone is the
\* second record's phone only if the first record had none
C9_FirstPhoneSurvives ==
    TwoPhonesScenario =>
        /\ results[1].entity_id = results[2].entity_id
        /\ MasterPhoneOf(results[2].entity_id) =
               IF Truthy(CleanPhone(1)) THEN CleanPhone(1) ELSE CleanPhone(2)

\* C9 amended: both resolve to one entity, whose master_phone is the second
\* record's phone whenever the second record has one, and the first
\* record's phone only if the second record has none
C9_LastPhoneSurvives ==
    TwoPhonesScenario =>
        /\ results[1].entity_id = results[2].entity_id
        /\ MasterPhoneOf(results[2].entity_id) =
               IF Truthy(CleanPhone(2)) THEN CleanPhone(2) ELSE CleanPhone(1)

\* C9 witness: both records had a phone, and the second one's is the master
C9_Witness ==
    /\ TwoPhonesScenario
    /\ Truthy(CleanPhone(1))
    /\ Truthy(CleanPhone(2))
    /\ MasterPhoneOf(results[2].entity_id) = CleanPhone(2)

\* result i is of a record with no email, no phone and no name
Anonymous(i) ==
    /\ results[i].standardized_record.email_clean = None
    /\ results[i].standardized_record.phone_clean = None
    /\ results[i].standardized_record.full_name_clean = None

\* the entity of result i was inserted by that call under an id that no
\* earlier call returned, and nothing was merged into it
FreshEntity(i) ==
    /\ \A j \in Finished : j # i => results[j].entity_id # results[i].entity_id
    /\ \E g \in golden_entities :
           /\ g.entity_id = results[i].entity_id
           /\ g.source_record_count = 1

\* C10 as stated: a record with no email, no phone and no name is decided
\* create_new with combined_score 0.0 and gets a fresh entity_id
C10_AnonymousScoresZero ==
    \A i \in Succeeded :
        Anonymous(i) =>
            /\ results[i].action = "CREATE_NEW"
            /\ results[i].combined_score = 0
            /\ FreshEntity(i)

\* C10 amended: such a record is decided create_new and gets a fresh
\* entity_id; its combined_score is 0.17 times its business score, which is
\* 0.0 only if no entity shares its company or its city and state
C10_AnonymousCreatesFresh ==
    \A i \in Succeeded :
        Anonymous(i) =>
            /\ results[i].action = "CREATE_NEW"
            /\ FreshEntity(i)
            /\ results[i].strategy_scores.exact = 0
            /\ results[i].strategy_scores.fuzzy = 0
            /\ results[i].strategy_scores.vector = 0
            /\ results[i].strategy_scores.business
                   \in {0, Ratio(2, 10), Ratio(3, 10)}
            /\ results[i].combined_score
                   = 17 * (results[i].strategy_scores.business \div 100)
            /\ (results[i].combined_score = 0) <=> (results[i].matched_entity = None)

\* C10 witness: such a record shared its company with an entity, scored
\* 0.051 and was created under a fresh id
C10_Witness ==
    \E i \in Succeeded :
        /\ Anonymous(i)
        /\ results[i].action = "CREATE_NEW"
        /\ results[i].combined_score = Ratio(51, 1000)
        /\ FreshEntity(i)

-----------------------------------------------------------------------------
(* Claims about single functions *)

Returned == fn_out # <<>>

JonAgainstJohn ==
    /\ Returned
    /\ fn_in.op = "similarity"
    /\ fn_in.str1 = JON_SMITH
    /\ fn_in.str2 = JOHN_SMITH

\* C11 as stated: the name score of "JON SMITH" against "JOHN SMITH" is
\* 1 - 1/9
C11_JonSmithScoresEightNinths ==
    JonAgainstJohn => fn_out[1] = ScoreOne - Ratio(1, 9)

\* C11 amended: the name score of "JON SMITH" against "JOHN SMITH" is
\* 1 - 1/10 = 0.9, edit distance 1 over the greater length 10, by the
\* streaming function and by the batch SQL
C11_JonSmithScoresNineTenths ==
    JonAgainstJohn =>
        /\ edit_distance(fn_in.str1, fn_in.str2) = 1
        /\ Max2(Len(fn_in.str1), Len(fn_in.str2)) = 10
        /\ fn_out[1] = ScoreOne - Ratio(1, 10)
        /\ fn_out[2] = ScoreOne - Ratio(1, 10)

\* C11 witness: the pair has been scored 0.9
C11_Witness ==
    /\ JonAgainstJohn
    /\ fn_out[1] = Ratio(9, 10)

-----------------------------------------------------------------------------
(* Claims about calls whose store operations may fail *)

Busy == {w \in Workers : proc[w].pc # "idle"}

Decisions == {"AUTO_MERGE", "HUMAN_REVIEW", "CREATE_NEW"}

\* every started call has returned once or is still running
OneOutcomePerCall == calls = Len(results) + Cardinality(Busy)

\* a step that returns nothing writes nothing; a step that returns a result
\* returns one, and it wrote one row, the entity of the result, unless the
\* result is the error result, and then it wrote nothing
OneWritePerOutcome ==
    LET n == Len(results)
        written == golden_entities' \ golden_entities
        replaced == golden_entities \ golden_entities'
    IN /\ Len(results') \in {n, n + 1}
       /\ Len(results') = n => golden_entities' = golden_entities
       /\ Len(results') = n + 1 =>
              LET result == results'[n + 1]
              IN /\ SubSeq(results', 1, n) = results
                 /\ result.action \in Decisions \cup {"ERROR"}
                 /\ result.action = "ERROR" => golden_entities' = golden_entities
                 /\ result.action \in Decisions =>
                        /\ Cardinality(written) = 1
                        /\ Cardinality(replaced) <= 1
                        /\ \A g \in written \cup replaced : g.entity_id = result.entity_id
                        /\ Cardinality(RowsWithId(golden_entities', result.entity_id)) = 1

\* C12: every process_record call returns, with exactly one outcome, a
\* decision or ERROR; a decision goes with exactly one write, which created
\* or updated the one entity of the result, and ERROR goes with no write
C12_OneOutcomeOneWrite ==
    /\ []OneOutcomePerCall
    /\ [][OneWritePerOutcome]_vars
    /\ \A w \in Workers : (proc[w].pc # "idle") ~> (proc[w].pc = "idle")

\* C12 witness: one call created an entity, the next one returned ERROR, and
\* the table holds the one entity
C12_Witness ==
    /\ Busy = {}
    /\ Len(results) = 2
    /\ results[1].action = "CREATE_NEW"
    /\ results[2].action = "ERROR"
    /\ Cardinality(golden_entities) = 1

\* result i is of a call one of whose queries failed, and whose commit did not
Degraded(i) == failures[i] # {} /\ "commit" \notin failures[i]

Healthy(i) == failures[i] = {}

\* what the match_results row of result i says besides the ids
AuditOutcome(i) ==
    [store_match_result(results[i].standardized_record, results[i], None)
        EXCEPT !.record1_id = None]

\* the candidates of a strategy when the queries in failed returned nothing
ExactFound(table, record, failed) ==
    (IF "exact_email" \in failed THEN {} ELSE exact_email_query(table, record))
    \cup (IF "exact_phone" \in failed THEN {} ELSE exact_phone_query(table, record))

FuzzyFound(table, record, failed) ==
    IF "fuzzy" \in failed THEN {} ELSE find_fuzzy_matches(table, record)

BusinessFound(table, record, failed) ==
    (IF "business_company" \in failed THEN {}
     ELSE business_company_query(table, record))
    \cup (IF "business_location" \in failed THEN {}
          ELSE business_location_query(table, record))

\* a call with a failed query returns a decision
DegradedCallsDecide == \A i \in Finished : Degraded(i) => results[i].action \in Decisions

\* the result a call returns is combined from no candidate of the queries
\* that failed and from every candidate of the queries that did not
DegradedToNothing ==
    \A w \in Workers :
        (proc[w].pc = "commit" /\ Len(results') = Len(results) + 1) =>
            LET result == results'[Len(results')]
                record == proc[w].standardized
                failed == proc[w].failed
            IN result.action \in Decisions =>
                  /\ \E m \in combine_scores(
                               ExactFound(golden_entities, record, failed),
                               FuzzyFound(golden_entities, record, failed), {},
                               BusinessFound(golden_entities, record, failed)) :
                         /\ result.strategy_scores = m.strategy_scores
                         /\ result.combined_score = m.combined_score
                         /\ result.matched_entity = m.best_match
                  /\ {"exact_email", "exact_phone"} \subseteq failed
                         => result.strategy_scores.exact = 0
                  /\ "fuzzy" \in failed => result.strategy_scores.fuzzy = 0
                  /\ {"business_company", "business_location"} \subseteq failed
                         => result.strategy_scores.business = 0

-----------------------------------------------------------------------------
(* Entity ids of the two paths *)

IdsCompared == fn_in.op = "entity_id" /\ fn_out # <<>>

\* the hash the rule names: of the email when there is one, else of the phone
RuleId ==
    IF Truthy(fn_in.email_clean)
    THEN Sha256Hex36(<<"email:">> \o fn_in.email_clean)
    ELSE Sha256Hex36(<<"phone:">> \o fn_in.phone_clean)

\* C14: for every record with a clean email or a clean phone to hash, each of
\* them absent, empty or filled, the streaming id of the unmatched record and
\* the batch master_id of its singleton cluster are the same id: the hash of
\* the email when there is one, else the hash of the phone
C14_SameIdInBothPaths ==
    (IdsCompared /\ (Truthy(fn_in.email_clean) \/ Truthy(fn_in.phone_clean)))
        => /\ fn_out[1] = fn_out[2]
           /\ fn_out[1] = RuleId

-----------------------------------------------------------------------------
(* Survivorship when the create path finds the entity *)

MasterFields ==
    {"master_name", "master_email", "master_phone", "master_address",
     "master_city", "master_state", "master_company"}

\* the value of the standardized record that goes to a master field
IncomingValue(record, field) ==
    CASE field = "master_name"    -> record.full_name_clean
      [] field = "master_email"   -> record.email_clean
      [] field = "master_phone"   -> record.phone_clean
      [] field = "master_address" -> record.address_clean
      [] field = "master_city"    -> record.city_clean
      [] field = "master_state"   -> record.state_clean
      [] field = "master_company" -> record.company

EntityOf(table, entity_id) == CHOOSE g \in table : g.entity_id = entity_id

\* this step is a call returning from create_new_golden_record, which found
\* a golden entity under the record's id
UpsertFoundEntity ==
    /\ Len(results') = Len(results) + 1
    /\ results'[Len(results')].action = "CREATE_NEW"
    /\ RowsWithId(golden_entities, results'[Len(results')].entity_id) # {}

\* C15 as stated: when create_new_golden_record finds a golden entity under
\* the record's id, every master field keeps its existing value if that is
\* non-null and takes the incoming value only if the existing one is null
C15_ExistingValueSurvives ==
    [][UpsertFoundEntity =>
          LET last == results'[Len(results')]
              old == EntityOf(golden_entities, last.entity_id)
              new == EntityOf(golden_entities', last.entity_id)
          IN \A field \in MasterFields :
                new[field] = IF old[field] # None THEN old[field]
                             ELSE IncomingValue(last.standardized_record, field)]_vars

\* C15 amended: every master field takes the incoming value if that is
\* non-null and keeps its existing value only if the incoming one is null
C15_IncomingValueSurvives ==
    [][UpsertFoundEntity =>
          LET last == results'[Len(results')]
              old == EntityOf(golden_entities, last.entity_id)
              new == EntityOf(golden_entities', last.entity_id)
              incoming(field) == IncomingValue(last.standardized_record, field)
          IN \A field \in MasterFields :
                new[field] = IF incoming(field) # None THEN incoming(field)
                             ELSE old[field]]_vars

\* C15 witness: two calls created under one id, their names differ and the
\* second one's name is the master_name; the second record has no company
\* and the first one's is kept
C15_Witness ==
    /\ Len(results) = 2
    /\ Created = {1, 2}
    /\ results[1].entity_id = results[2].entity_id
    /\ LET first == results[1].standardized_record
           second == results[2].standardized_record
           entity == EntityOf(golden_entities, results[2].entity_id)
       IN /\ first.full_name_clean # None
          /\ second.full_name_clean # None
          /\ first.full_name_clean # second.full_name_clean
          /\ entity.master_name = second.full_name_clean
          /\ first.company # None
          /\ second.company = None
          /\ entity.master_company = first.company

-----------------------------------------------------------------------------
(* Survivorship when a record is merged into the entity it matched *)

\* this step is a call returning from update_golden_record
MergedIntoMatch ==
    /\ Len(results') = Len(results) + 1
    /\ results'[Len(results')].action \in {"AUTO_MERGE", "HUMAN_REVIEW"}

\* new is the longest of the non-null values among existing and incoming
IsLongestNonNull(new, existing, incoming) ==
    LET values == {existing, incoming} \ {None}
    IN IF values = {} THEN new = None
       ELSE /\ new \in values
            /\ \A v \in values : Len(new) >= Len(v)

\* C16: when update_golden_record merges a record into the entity it
\* matched, master_name and master_address become the longest non-null value
\* among the existing and the incoming one: a shorter incoming name or
\* address never replaces a longer existing one
C16_LongestNameAndAddress ==
    [][MergedIntoMatch =>
          LET last == results'[Len(results')]
              old == EntityOf(golden_entities, last.entity_id)
              new == EntityOf(golden_entities', last.entity_id)
          IN /\ IsLongestNonNull(new.master_name, old.master_name,
                                 last.standardized_record.full_name_clean)
             /\ IsLongestNonNull(new.master_address, old.master_address,
                                 last.standardized_record.address_clean)]_vars

-----------------------------------------------------------------------------
(* Golden entities only grow *)

IsPrefix(s, t) == Len(s) <= Len(t) /\ SubSeq(t, 1, Len(s)) = s

\* no source system is twice in the source_systems of an entity
DuplicateFreeSources ==
    \A g \in golden_entities :
        \A source \in BagToSet(g.source_systems) : CopiesIn(source, g.source_systems) = 1

\* a step keeps every entity; an entity it changes got the returning call's
\* record: its id appended, its source system united with the others
EntitiesOnlyGrow ==
    \A g \in golden_entities :
        \E h \in golden_entities' :
            /\ h.entity_id = g.entity_id
            /\ IsPrefix(g.source_record_ids, h.source_record_ids)
            /\ BagToSet(g.source_systems) \subseteq BagToSet(h.source_systems)
            /\ h # g =>
                  LET last == results'[Len(results')]
                  IN /\ Len(results') = Len(results) + 1
                     /\ h.source_record_ids =
                            Append(g.source_record_ids, AppendedIdOf(last))
                     /\ BagToSet(h.source_systems) =
                            BagToSet(g.source_systems)
                                \cup {last.standardized_record.source_system}

\* C17: across process_record calls no golden entity is removed, the
\* source_record_ids of an entity only grows by appending, and source_systems
\* is a duplicate-free set that only grows by union with the record's source
C17_EntitiesOnlyGrow == []DuplicateFreeSources /\ [][EntitiesOnlyGrow]_vars

\* C17 witness: an entity took three records from two source systems
C17_Witness ==
    \E g \in golden_entities :
        /\ Len(g.source_record_ids) = 3
        /\ Cardinality(BagToSet(g.source_systems)) = 2

-----------------------------------------------------------------------------
(* Concurrent transactions on one entity *)

\* the calls whose transaction on the entity committed
CommittedOn(entity_id) == {i \in Succeeded : results[i].entity_id = entity_id}

\* C18: for any interleaving of update_golden_record and
\* create_new_golden_record transactions on one entity no update is lost:
\* source_record_count is the number of committed transactions on the entity
\* and source_record_ids holds one entry for each of them
C18_NoLostUpdate ==
    \A g \in golden_entities :
        LET committed == CommittedOn(g.entity_id)
        IN /\ g.source_record_count = Cardinality(committed)
           /\ Len(g.source_record_ids) = Cardinality(committed)
           /\ \A i \in committed :
                  Occurrences(g.source_record_ids, AppendedId(i)) =
                      Cardinality({j \in committed : AppendedId(j) = AppendedId(i)})

\* C18 witness: two calls that saw no candidate created one entity while a
\* third call merged its record into it, and the entity counts three
C18_Witness ==
    \E g \in golden_entities :
        /\ g.source_record_count = 3
        /\ \E i, j, k \in CommittedOn(g.entity_id) :
               /\ i # j
               /\ results[i].action = "CREATE_NEW" /\ results[i].matched_entity = None
               /\ results[j].action = "CREATE_NEW" /\ results[j].matched_entity = None
               /\ results[k].action \in {"AUTO_MERGE", "HUMAN_REVIEW"}

-----------------------------------------------------------------------------
(* A commit transaction that fails *)

\* this step is the return of a call whose commit transaction failed
CommitFailed ==
    /\ Len(failures') = Len(failures) + 1
    /\ "commit" \in failures'[Len(failures')]

\* the failed call returns the error result and writes nothing
ErrorReturned ==
    CommitFailed =>
        /\ Len(results') = Len(results) + 1
        /\ results'[Len(results')].action = "ERROR"
        /\ results'[Len(results')].entity_id = None
        /\ golden_entities' = golden_entities
        /\ \A w \in Workers : proc'[w].pc = "idle"

\* nothing is written between the start of a call and its commit
WrittenAtCommitOnly ==
    golden_entities' # golden_entities => \E w \in Workers : proc[w].pc = "commit"

\* C19: if the commit transaction of a record fails, process_record does not
\* raise: it returns a result with action ERROR and entity_id None, and
\* golden_entities is as it was before the call
C19_FailedCommitIsAnErrorResult ==
    [][ErrorReturned /\ WrittenAtCommitOnly]_vars

\* C19 witness: the first call created an entity, the commit of the second
\* failed, and the table holds what the first call wrote
C19_Witness ==
    /\ Len(results) = 2
    /\ results[1].action = "CREATE_NEW"
    /\ failures[2] = {"commit"}
    /\ results[2].action = "ERROR"
    /\ results[2].entity_id = None
    /\ \A w \in Workers : proc[w].pc = "idle"
    /\ golden_entities = {NewGoldenEntity(results[1].entity_id,
                                          results[1].standardized_record)}

-----------------------------------------------------------------------------
(* The business score of a candidate *)

\* this step is the return of a call that found a best candidate
ReturnedWithCandidate ==
    /\ Len(results') = Len(results) + 1
    /\ results'[Len(results')].action # "ERROR"
    /\ results'[Len(results')].matched_entity # None

\* a golden entity as the second record of a batch pair
EntityAsRecord(g) ==
    [company |-> g.master_company, city_clean |-> g.master_city,
     state_clean |-> g.master_state]

\* the candidate as the queries of the call saw it
Candidate == EntityAsRecord(EntityOf(golden_entities,
                                     results'[Len(results')].matched_entity))

\* C20 as stated: the business score of a record and its candidate is the sum
\* of the signals the pair satisfies, 0.3 for the same company and 0.2 for
\* the same city and state, in the streaming path as in the batch path
C20_BusinessScoreIsTheSum ==
    [][ReturnedWithCandidate =>
          LET last == results'[Len(results')]
          IN last.strategy_scores.business =
                 batch_business_score(last.standardized_record, Candidate)]_vars

\* C20 amended: in the streaming path the business score of a record and
\* its candidate is the greatest of the signals the pair satisfies, so 0.3
\* and not 0.5 when company and location are both the same; the batch path
\* adds them
C20_BusinessScoreIsTheMaximum ==
    [][ReturnedWithCandidate =>
          LET last == results'[Len(results')]
              record == last.standardized_record
          IN /\ last.strategy_scores.business =
                    Max2(batch_same_company_score(record, Candidate),
                         batch_same_location_score(record, Candidate))
             /\ batch_business_score(record, Candidate) =
                    batch_same_company_score(record, Candidate)
                    + batch_same_location_score(record, Candidate)]_vars

\* C20 witness: a call returned a candidate that has the company, the city
\* and the state of its record, with a business score of 0.3
C20_Witness ==
    \E i \in Succeeded :
        /\ results[i].matched_entity # None
        /\ results[i].strategy_scores.business = Ratio(3, 10)
        /\ \E g \in golden_entities :
               /\ g.entity_id = results[i].matched_entity
               /\ g.entity_id # results[i].entity_id
               /\ results[i].standardized_record.company # None
               /\ results[i].standardized_record.city_clean # None
               /\ results[i].standardized_record.state_clean # None
               /\ g.master_company = results[i].standardized_record.company
               /\ g.master_city = results[i].standardized_record.city_clean
               /\ g.master_state = results[i].standardized_record.state_clean

-----------------------------------------------------------------------------
(* The best match of combine_scores *)

\* worker w returns from a call that did not fail
Returns(w) ==
    /\ proc[w].pc = "commit"
    /\ proc'[w].pc = "idle"
    /\ Len(results') = Len(results) + 1
    /\ results'[Len(results')].action # "ERROR"

\* the greatest score a strategy gave an entity, 0 when it gave none
GreatestGiven(matches, entity_id) ==
    LET given == {m.score : m \in {x \in matches : x.entity_id = entity_id}}
    IN IF given = {} THEN 0 ELSE SetMax(given)

\* the sum over the four strategies of weight times greatest score; the
\* vector strategy gives a streaming record no candidate
WeightedScoreOf(w, entity_id) ==
    WeightExact * (GreatestGiven(proc[w].exact_matches, entity_id) \div 100)
    + WeightFuzzy * (GreatestGiven(proc[w].fuzzy_matches, entity_id) \div 100)
    + WeightVector * (GreatestGiven({}, entity_id) \div 100)
    + WeightBusiness * (GreatestGiven(proc[w].business_matches, entity_id) \div 100)

CandidatesOf(w) ==
    {m.entity_id : m \in proc[w].exact_matches \cup proc[w].fuzzy_matches
                             \cup proc[w].business_matches}

\* C21: the best match of combine_scores is a candidate whose combined score,
\* the sum over the strategies of weight times the greatest score the
\* strategy gave it, is at least that of every other candidate; with no
\* candidate the best match is None and the combined score 0.0
C21_BestMatchHasGreatestScore ==
    [][\A w \in Workers :
          Returns(w) =>
              LET last == results'[Len(results')]
              IN IF CandidatesOf(w) = {}
                 THEN last.matched_entity = None /\ last.combined_score = 0
                 ELSE /\ last.matched_entity \in CandidatesOf(w)
                      /\ last.combined_score = WeightedScoreOf(w, last.matched_entity)
                      /\ \A e \in CandidatesOf(w) :
                             WeightedScoreOf(w, e) <= last.combined_score]_vars

\* C21 witness: the third call matched one of two entities that both have
\* the name of its record, by the email only one of them has
C21_Witness ==
    /\ Len(results) = 3
    /\ results[3].action = "HUMAN_REVIEW"
    /\ results[3].strategy_scores.exact > 0
    /\ \E g, h \in golden_entities :
          /\ g.entity_id = results[3].matched_entity
          /\ h.entity_id # g.entity_id
          /\ g.master_name = results[3].standardized_record.full_name_clean
          /\ h.master_name = results[3].standardized_record.full_name_clean
          /\ h.master_email # results[3].standardized_record.email_clean

-----------------------------------------------------------------------------
(* The fuzzy score of a pair in the two paths *)

FuzzyCompared == fn_in.op = "fuzzy" /\ fn_out # <<>>

\* the entity is a row of the prefix query of find_fuzzy_matches
IsFuzzyCandidate ==
    /\ Truthy(fn_in.a.full_name_clean)
    /\ StartsWith(fn_in.b.full_name_clean,
                  IF Len(fn_in.a.full_name_clean) >= 3
                  THEN SubSeq(fn_in.a.full_name_clean, 1, 3)
                  ELSE fn_in.a.full_name_clean)

PairNameScore ==
    name_edit_distance_score(fn_in.a.full_name_clean, fn_in.b.full_name_clean)

PairAddressScore ==
    address_edit_distance_score(fn_in.a.address_clean, fn_in.b.address_clean)

\* C22 as stated: the fuzzy score of a record against a candidate is the
\* average of the best name sub-score and the address score, in streaming
\* as in the batch SQL, and streaming passes it to the combiner for every
\* candidate, discarding none
C22_FuzzyScoreIsTheAverage ==
    (FuzzyCompared /\ IsFuzzyCandidate) =>
        fn_out[1] = {Match(<<"e">>,
                           fuzzy_matches_row(fn_in.a, fn_in.b).fuzzy_overall_score,
                           "fuzzy")}

\* C22 amended: in streaming the fuzzy score of a record against a candidate
\* is the greater of the edit-distance name score and the address score, and
\* the candidate is passed to the combiner only if that score is above 0.6;
\* the batch SQL averages the best name sub-score and the address score
C22_FuzzyScoreIsTheGreater ==
    FuzzyCompared =>
        /\ fn_out[1] =
              IF IsFuzzyCandidate /\ Max2(PairNameScore, PairAddressScore) > Ratio(6, 10)
              THEN {Match(<<"e">>, Max2(PairNameScore, PairAddressScore), "fuzzy")}
              ELSE {}
        /\ \A row \in fn_out[2] :
              row.fuzzy_overall_score =
                  (Max2(Max2(PairNameScore,
                             name_soundex_score(fn_in.a.full_name_clean,
                                                fn_in.b.full_name_clean)),
                        name_token_score(fn_in.a.full_name_clean,
                                         fn_in.b.full_name_clean))
                   + PairAddressScore) \div 2

\* C22 witness: a candidate whose name is far from the record's was passed
\* with the score 1.0 of its address
C22_Witness ==
    /\ FuzzyCompared
    /\ IsFuzzyCandidate
    /\ PairNameScore < Ratio(6, 10)
    /\ PairAddressScore = ScoreOne
    /\ fn_out[1] = {Match(<<"e">>, ScoreOne, "fuzzy")}

-----------------------------------------------------------------------------
(* The pairs the batch fuzzy SQL keeps *)

\* the greatest of the four sub-scores of the pair
PairGreatestSubScore ==
    Max2(Max2(PairNameScore,
              name_soundex_score(fn_in.a.full_name_clean, fn_in.b.full_name_clean)),
         Max2(name_token_score(fn_in.a.full_name_clean, fn_in.b.full_name_clean),
              PairAddressScore))

PairOverallScore == fuzzy_matches_row(fn_in.a, fn_in.b).fuzzy_overall_score

\* C23 as stated: in batch mode a pair is dropped from the fuzzy matches
\* exactly when its overall fuzzy score is at most 0.5, and every pair kept
\* has an overall fuzzy score above 0.5
C23_DroppedByOverallScore ==
    FuzzyCompared =>
        /\ fn_out[2] = {} <=> PairOverallScore <= Ratio(5, 10)
        /\ \A row \in fn_out[2] : row.fuzzy_overall_score > Ratio(5, 10)

\* C23 amended: a pair is dropped exactly when the greatest of its name
\* edit-distance, soundex, token and address scores is at most 0.5; a pair
\* kept has an overall fuzzy score above 0.25, which may be 0.5 or less
C23_DroppedByGreatestSubScore ==
    FuzzyCompared =>
        /\ fn_out[2] = {} <=> PairGreatestSubScore <= Ratio(5, 10)
        /\ \A row \in fn_out[2] :
              /\ row.fuzzy_overall_score = PairOverallScore
              /\ row.fuzzy_overall_score > Ratio(1, 4)

\* C23 witness: a pair with the same name and no address is kept with an
\* overall fuzzy score of exactly 0.5
C23_Witness ==
    /\ FuzzyCompared
    /\ PairNameScore = ScoreOne
    /\ PairAddressScore = 0
    /\ \E row \in fn_out[2] : row.fuzzy_overall_score = Ratio(5, 10)

-----------------------------------------------------------------------------
(* Standardizing twice *)

Standardized == fn_in.op = "standardize" /\ fn_out # <<>>

CleanFields ==
    {"full_name_clean", "email_clean", "phone_clean", "address_clean",
     "city_clean", "state_clean"}

\* C24 as stated: for every raw record, standardize_record on the cleaned
\* name, email, phone, address, city and state it produced yields the same
\* cleaned values again
C24_StandardizeIsIdempotent ==
    Standardized => \A field \in CleanFields : fn_out[2][field] = fn_out[1][field]

\* C24 amended: every cleaned value that is not the empty string is produced
\* again, the abbreviations ST, AVE, BLVD, RD, DR unchanged; a cleaned value
\* that is the empty string is not set on the second pass
C24_NonEmptyValuesAreKept ==
    Standardized =>
        \A field \in CleanFields :
            fn_out[2][field] = IF fn_out[1][field] = <<>> THEN None
                               ELSE fn_out[1][field]

\* C24 witness: "DRIVE ST" with a leading blank became "DR ST" and stayed so,
\* and the phone without a digit became the empty string and then nothing
C24_Witness ==
    /\ Standardized
    /\ fn_in.record.address = <<" ","D","R","I","V","E"," ","S","T">>
    /\ fn_out[1].address_clean = <<"D","R"," ","S","T">>
    /\ fn_out[2].address_clean = <<"D","R"," ","S","T">>
    /\ fn_out[1].phone_clean = <<>>
    /\ fn_out[2].phone_clean = None

-----------------------------------------------------------------------------
(* Merging on AUTO_MERGE and HUMAN_REVIEW *)

\* C25: when the decision of process_record is AUTO_MERGE or HUMAN_REVIEW
\* and there is a best match, the record is merged into that entity: the
\* result's entity_id is the best match, the record id is appended to that
\* entity and the number of golden entities stays; an entity is added only
\* on a CREATE_NEW decision
C25_ReviewAndAutoMergeBothMerge ==
    [][\A w \in Workers :
          Returns(w) =>
              LET last == results'[Len(results')]
              IN /\ (last.action \in {"AUTO_MERGE", "HUMAN_REVIEW"}
                        /\ last.matched_entity # None) =>
                       /\ last.entity_id = last.matched_entity
                       /\ EntityOf(golden_entities', last.entity_id).source_record_ids =
                              Append(EntityOf(golden_entities,
                                              last.entity_id).source_record_ids,
                                     AppendedIdOf(last))
                       /\ Cardinality(golden_entities') = Cardinality(golden_entities)
                 /\ Cardinality(golden_entities') > Cardinality(golden_entities) =>
                       last.action = "CREATE_NEW"]_vars

\* C25 witness: a record with another email than the entity it matched by
\* name and phone was merged into it on a HUMAN_REVIEW decision
C25_Witness ==
    \E i \in Succeeded :
        /\ results[i].action = "HUMAN_REVIEW"
        /\ results[i].matched_entity # None
        /\ results[i].entity_id = results[i].matched_entity
        /\ results[i].entity_id #
               Sha256Hex36(<<"email:">> \o results[i].standardized_record.email_clean)
        /\ \E g \in golden_entities :
               /\ g.entity_id = results[i].entity_id
               /\ Len(g.source_record_ids) >= 2
               /\ g.source_record_ids[Len(g.source_record_ids)] = AppendedId(i)

-----------------------------------------------------------------------------
(* address_clean in the two paths *)

\* C26: for every raw address, in any letter case, the batch SQL and
\* standardize_record give the same address_clean, uppercased and trimmed
\* first and abbreviated afterwards
C26_SameAddressCleanInBothPaths ==
    (Standardized /\ Truthy(fn_in.record.address)) =>
        /\ fn_out[3] = fn_out[1].address_clean
        /\ fn_out[3] = Abbreviate(Strip(Upper(fn_in.record.address)))

-----------------------------------------------------------------------------
(* The greatest combined score of a streaming record *)

\* 0.33 * 1.0 + 0.28 * 1.0 + 0.22 * 0 + 0.17 * 0.3 = 0.661
GreatestCombinedScore ==
    WeightExact * (ScoreOne \div 100) + WeightFuzzy * (ScoreOne \div 100)
    + WeightVector * 0 + WeightBusiness * (Ratio(3, 10) \div 100)

\* C27: for every record and every store state the combined score computed
\* by process_record is at most 0.661, the vector score being 0 and the
\* business score at most 0.3, so process_record never returns AUTO_MERGE:
\* its action is HUMAN_REVIEW, CREATE_NEW or ERROR
C27_NeverAutoMerge ==
    \A i \in Finished :
        /\ results[i].combined_score <= GreatestCombinedScore
        /\ GreatestCombinedScore < auto_merge_threshold
        /\ results[i].strategy_scores.vector = 0
        /\ results[i].strategy_scores.business <= Ratio(3, 10)
        /\ results[i].action \in {"HUMAN_REVIEW", "CREATE_NEW", "ERROR"}

\* C27 witness: a record with the phone, the name and the company of an
\* entity scored 0.661 against it, HUMAN_REVIEW
C27_Witness ==
    \E i \in Finished :
        /\ results[i].combined_score = GreatestCombinedScore
        /\ results[i].strategy_scores.exact = ScoreOne
        /\ results[i].strategy_scores.fuzzy = ScoreOne
        /\ results[i].strategy_scores.business = Ratio(3, 10)
        /\ results[i].action = "HUMAN_REVIEW"

-----------------------------------------------------------------------------
(* source_record_count *)

\* C28: for every golden entity created and modified only by
\* create_new_golden_record and update_golden_record, source_record_count is
\* the number of entries of source_record_ids, in every reachable state
C28_CountIsNumberOfIds ==
    \A g \in golden_entities : g.source_record_count = Len(g.source_record_ids)

\* C28 witness: an entity was inserted, found again by the create path and
\* merged into by the update path, and counts three
C28_Witness ==
    \E g \in golden_entities :
        /\ g.source_record_count = 3
        /\ Len(g.source_record_ids) = 3
        /\ g.processing_path = "stream_updated"
        /\ \E i \in Succeeded :
               /\ results[i].entity_id = g.entity_id
               /\ results[i].action = "HUMAN_REVIEW"

-----------------------------------------------------------------------------
(* master_id in the golden_records table *)

\* C29: in the batch golden_records output no two golden records have the
\* same master_id, also when two clusters select the same master_email or
\* the same master_phone
C29_MasterIdIsUnique ==
    Clustered =>
        \A g, h \in golden_records : g.master_id = h.master_id => g = h

-----------------------------------------------------------------------------
(* entity_id and master_email of a golden entity *)

\* the records of the pool as process_record standardizes them
StandardizedPool == {standardize_record(raw) : raw \in Pool}

\* the standardized record that source_record_ids names by id
SourceRecord(id, entity_id) ==
    CHOOSE record \in StandardizedPool : SourceRecordId(record, entity_id) = id

\* the record create_new_golden_record inserted the entity from
CreatorOf(g) == SourceRecord(g.source_record_ids[1], g.entity_id)

\* the clean emails of the records of the entity, in the order they came
EmailsOf(g) ==
    SelectSeq([i \in 1..Len(g.source_record_ids) |->
                   SourceRecord(g.source_record_ids[i], g.entity_id).email_clean],
              LAMBDA email : email # None)

\* C30: every golden entity that create_new_golden_record created from a
\* record with a non-null clean email keeps entity_id equal to the truncated
\* hash of "email:" + master_email in every later state, whatever was merged
\* into it afterwards
C30_IdIsHashOfMasterEmail ==
    \A g \in golden_entities :
        CreatorOf(g).email_clean # None =>
            g.entity_id = Sha256Hex36(<<"email:">> \o g.master_email)

\* C30 as the code has it: the entity_id is the hash of the clean email of
\* the record the entity was created from, and master_email is the clean
\* email of the last record of the entity that has one
C30_IdIsHashOfCreatorEmail ==
    \A g \in golden_entities :
        Truthy(CreatorOf(g).email_clean) =>
            /\ g.entity_id = Sha256Hex36(<<"email:">> \o CreatorOf(g).email_clean)
            /\ g.master_email = EmailsOf(g)[Len(EmailsOf(g))]

\* C30 witness: an entity created from a record with an email took a record
\* with another email, which is now its master_email
C30_Witness ==
    \E g \in golden_entities :
        /\ Truthy(CreatorOf(g).email_clean)
        /\ Len(g.source_record_ids) >= 2
        /\ g.master_email # CreatorOf(g).email_clean
        /\ g.entity_id = Sha256Hex36(<<"email:">> \o CreatorOf(g).email_clean)

=============================================================================
